---- MODULE Spec2Model ----
(***************************************************************************)
(* A model of oda-wd-client: the reference model (wd_object/from_id_list), *)
(* the File model, the wire<->domain mapping functions and the service     *)
(* facades.  The client is single-threaded and synchronous: a state of the *)
(* model is the operation that was last called, its input, its outcome and *)
(* the transport events (factory calls, requests, mappings) it caused.     *)
(***************************************************************************)
EXTENDS Integers, Sequences, FiniteSets, TLC

VARIABLES
    op,     \* the operation last called ("idle" before any call)
    arg,    \* its input
    ret,    \* its outcome: [kind |-> "return", ...] or [kind |-> "raise", exc |-> ...]
    log,    \* the transport events of the call, in program order
    gen,    \* the generator object of the last list operation
    net     \* what the transport does during the call (chosen by the service)

vars == <<op, arg, ret, log, gen, net>>

(***************************************************************************)
(* Python values.  An optional string is a string or None; a keyword that  *)
(* the caller did not pass is Missing.  Truthy is Python's truth test on   *)
(* an optional string: None and "" are both false.                         *)
(***************************************************************************)
None == "<None>"
Missing == "<Missing>"
NoneObj == [none |-> TRUE]

Truthy(v) == v # None /\ v # ""

SeqsUpTo(S, n) == UNION {[1..k -> S] : k \in 0..n}

Return(v) == [kind |-> "return", value |-> v]
Raise(e) == [kind |-> "raise", exc |-> e]

\* Bounds of the model
MaxIdList == 2
MaxContent == 3
MaxJournalLines == 2
MaxRecords == 5
PageSize == 2
MaxLines == 3
MaxOrder == 2
MaxRateData == 2
MaxTaxStatus == 2
MaxContacts == 2
MaxDate == 2
MaxTags == 3

(***************************************************************************)
(* The reference classes: WorkdayReferenceBaseModel and its subclasses.    *)
(*   id_type        default of workday_id_type (None: the field is a       *)
(*                  required plain str, as on the base class)              *)
(*   class_name     the class attribute _class_name                        *)
(*   id_required    workday_id is re-declared `str` (no default)           *)
(*   id_alias       workday_id is populated by the alias currency_code     *)
(*   parent_required / parent_type   LedgerAccount's mandatory scoping     *)
(*   rest_required  the class has further required fields                  *)
(***************************************************************************)
CurrencyMaxLength == 3

RefClass(id_type, class_name) ==
    [id_type |-> id_type, class_name |-> class_name, id_required |-> TRUE,
     id_alias |-> FALSE, id_maxlen |-> 0, parent_required |-> FALSE,
     parent_type |-> None, rest_required |-> FALSE]

WorkdayReferenceBaseModel ==
    [RefClass(None, None) EXCEPT !.id_required = FALSE]

Currency ==
    [RefClass("Currency_ID", "CurrencyObject") EXCEPT
        !.id_alias = TRUE, !.id_maxlen = CurrencyMaxLength]

Company == RefClass("Company_Reference_ID", "CompanyObject")

JournalSource == RefClass("Journal_Source_ID", "Journal_SourceObject")

LedgerType == RefClass("Ledger_Type_ID", "Ledger_TypeObject")

SpendCategory == RefClass("Spend_Category_ID", "Spend_CategoryObject")

CostCenterWorktag == RefClass("Cost_Center_Reference_ID", "Accounting_WorktagObject")

ProjectWorktag == RefClass("Project_ID", "Accounting_WorktagObject")

LedgerAccount ==
    [RefClass("Ledger_Account_ID", "Ledger_AccountObject") EXCEPT
        !.parent_required = TRUE, !.parent_type = "Account_Set_ID"]

TaxApplicability == RefClass("Tax_Applicability_ID", "Tax_ApplicabilityObject")

TaxOption == RefClass("Tax_Option_ID", "Tax_OptionObject")

TaxCode == RefClass("Tax_Code_ID", "Tax_CodeObject")

Supplier == RefClass("Supplier_ID", "SupplierObject")

TaxRate == RefClass("Tax_Rate_ID", "Tax_RateObject")

TaxRecoverability ==
    RefClass("Tax_Recoverability_Object_ID", "Tax_RecoverabilityObject")

SupplierInvoice ==
    [RefClass("Supplier_invoice_Reference_ID", None) EXCEPT
        !.id_required = FALSE, !.rest_required = TRUE]

ConcreteClasses ==
    {"Currency", "Company", "JournalSource", "LedgerType", "SpendCategory",
     "CostCenterWorktag", "ProjectWorktag", "LedgerAccount", "TaxApplicability",
     "TaxOption", "TaxCode", "Supplier", "TaxRate", "TaxRecoverability",
     "SupplierInvoice"}

Classes == ConcreteClasses \cup {"WorkdayReferenceBaseModel"}

ClassDef(cls) ==
    CASE cls = "WorkdayReferenceBaseModel" -> WorkdayReferenceBaseModel
      [] cls = "Currency" -> Currency
      [] cls = "Company" -> Company
      [] cls = "JournalSource" -> JournalSource
      [] cls = "LedgerType" -> LedgerType
      [] cls = "SpendCategory" -> SpendCategory
      [] cls = "CostCenterWorktag" -> CostCenterWorktag
      [] cls = "ProjectWorktag" -> ProjectWorktag
      [] cls = "LedgerAccount" -> LedgerAccount
      [] cls = "TaxApplicability" -> TaxApplicability
      [] cls = "TaxOption" -> TaxOption
      [] cls = "TaxCode" -> TaxCode
      [] cls = "Supplier" -> Supplier
      [] cls = "TaxRate" -> TaxRate
      [] cls = "TaxRecoverability" -> TaxRecoverability
      [] cls = "SupplierInvoice" -> SupplierInvoice

(***************************************************************************)
(* Model construction with pydantic's validation: the constructor of cls   *)
(* called with the keywords kw.  kw gives each keyword a value or Missing; *)
(* kw.rest says whether the class's further required fields (if any) were  *)
(* all passed.  Unknown keywords are ignored, so a field with an alias is  *)
(* populated by the alias only.                                            *)
(***************************************************************************)
NoKw ==
    [workday_id |-> Missing, currency_code |-> Missing, workday_id_type |-> Missing,
     workday_parent_id |-> Missing, workday_parent_type |-> Missing, rest |-> FALSE]

IdKw(cls, kw) == IF ClassDef(cls).id_alias THEN kw.currency_code ELSE kw.workday_id

IdFieldOk(cls, kw) ==
    LET v == IdKw(cls, kw)
        c == ClassDef(cls)
    IN  IF v \in {Missing, None}
        THEN ~c.id_required
        ELSE c.id_maxlen = 0 \/ Len(v) <= c.id_maxlen

IdTypeFieldOk(cls, kw) ==
    LET v == kw.workday_id_type
        c == ClassDef(cls)
    IN  IF c.id_type = None
        THEN v \notin {Missing, None}
        ELSE v \in {Missing, c.id_type}

ParentFieldsOk(cls, kw) ==
    LET c == ClassDef(cls)
    IN  /\ c.parent_required => kw.workday_parent_id \notin {Missing, None}
        /\ c.parent_type # None => kw.workday_parent_type \in {Missing, c.parent_type}

Validates(cls, kw) ==
    /\ IdFieldOk(cls, kw)
    /\ IdTypeFieldOk(cls, kw)
    /\ ParentFieldsOk(cls, kw)
    /\ ClassDef(cls).rest_required => kw.rest

Default(v, d) == IF v = Missing THEN d ELSE v

Entity(cls, kw) ==
    [cls |-> cls,
     workday_id |-> Default(IdKw(cls, kw), None),
     workday_id_type |-> Default(kw.workday_id_type, ClassDef(cls).id_type),
     workday_parent_id |-> Default(kw.workday_parent_id, None),
     workday_parent_type |-> Default(kw.workday_parent_type, ClassDef(cls).parent_type)]

Construct(cls, kw) ==
    IF Validates(cls, kw) THEN Return(Entity(cls, kw)) ELSE Raise("ValidationError")

(***************************************************************************)
(* The transport's factory: a fresh wire object of the named type, every   *)
(* attribute unset.                                                        *)
(***************************************************************************)
Factory(type) == [ev |-> "factory", what |-> "ns0:" \o type]

NewIdObj == [_type |-> None, value |-> None, _parent_id |-> None, _parent_type |-> None]

(***************************************************************************)
(* WorkdayReferenceBaseModel.wd_object(client, class_name): the outcome    *)
(* and the factory calls made.                                             *)
(***************************************************************************)
ResolvedClassName(e, class_name) ==
    IF Truthy(class_name) THEN class_name ELSE ClassDef(e.cls).class_name

\* a wd_object that attaches the parent id without its type
IdObj_ParentIdOnly(e) ==
    LET id_obj == [NewIdObj EXCEPT !.value = e.workday_id, !._type = e.workday_id_type]
    IN  IF Truthy(e.workday_parent_id)
        THEN [id_obj EXCEPT !._parent_id = e.workday_parent_id]
        ELSE id_obj

IdObj(e) ==
    LET id_obj == [NewIdObj EXCEPT !.value = e.workday_id, !._type = e.workday_id_type]
    IN  IF Truthy(e.workday_parent_id)
        THEN [id_obj EXCEPT !._parent_id = e.workday_parent_id,
                            !._parent_type = e.workday_parent_type]
        ELSE id_obj

wd_object(e, class_name) ==
    LET name == ResolvedClassName(e, class_name)
    IN  IF ~Truthy(name)
        THEN [out |-> Raise("AssertionError"), events |-> <<>>]
        ELSE [out |-> Return([wd_type |-> name \o "Type", ID |-> <<IdObj(e)>>]),
              events |-> <<Factory(name \o "Type"), Factory(name \o "IDType")>>]

(***************************************************************************)
(* get_id_from_list(id_list, id_type): the value of the first entry of the *)
(* given type, None when there is none.                                    *)
(***************************************************************************)
RECURSIVE get_id_from_list(_, _)
get_id_from_list(id_list, id_type) ==
    IF id_list = <<>> THEN None
    ELSE IF Head(id_list)._type = id_type THEN Head(id_list).value
    ELSE get_id_from_list(Tail(id_list), id_type)

(***************************************************************************)
(* cls.from_id_list(id_list, extra).  A keyword workday_id in extra      *)
(* collides with the explicit one: TypeError.                              *)
(***************************************************************************)
CallWithId(cls, workday_id, extra) ==
    IF extra.workday_id # Missing
    THEN Raise("TypeError")
    ELSE Construct(cls, [extra EXCEPT !.workday_id = workday_id])

\* a from_id_list that constructs the entity whether or not an ID was found
from_id_list_Unguarded(cls, id_list, extra) ==
    CallWithId(cls, get_id_from_list(id_list, ClassDef(cls).id_type), extra)

from_id_list(cls, id_list, extra) ==
    LET workday_id == get_id_from_list(id_list, ClassDef(cls).id_type)
    IN  IF Truthy(workday_id)
        THEN CallWithId(cls, workday_id, extra)
        ELSE Return(NoneObj)

(***************************************************************************)
(* The File model.  File content is a sequence of bytes.  b64encode is     *)
(* RFC 4648 base64: three bytes give four characters of the alphabet, a    *)
(* last group of one or two bytes is padded with "=".                      *)
(***************************************************************************)
B64Alphabet ==
    <<"A", "B", "C", "D", "E", "F", "G", "H", "I", "J", "K", "L", "M", "N", "O", "P",
      "Q", "R", "S", "T", "U", "V", "W", "X", "Y", "Z", "a", "b", "c", "d", "e", "f",
      "g", "h", "i", "j", "k", "l", "m", "n", "o", "p", "q", "r", "s", "t", "u", "v",
      "w", "x", "y", "z", "0", "1", "2", "3", "4", "5", "6", "7", "8", "9", "+", "/">>

B64Char(n) == B64Alphabet[n + 1]

RECURSIVE b64encode(_)
b64encode(bytes) ==
    LET b(i) == IF i <= Len(bytes) THEN bytes[i] ELSE 0
        n == b(1) * 65536 + b(2) * 256 + b(3)
        c1 == B64Char(n \div 262144)
        c2 == B64Char((n \div 4096) % 64)
        c3 == B64Char((n \div 64) % 64)
        c4 == B64Char(n % 64)
    IN  CASE Len(bytes) = 0 -> ""
          [] Len(bytes) = 1 -> c1 \o c2 \o "=="
          [] Len(bytes) = 2 -> c1 \o c2 \o c3 \o "="
          [] OTHER -> c1 \o c2 \o c3 \o c4 \o b64encode(SubSeq(bytes, 4, Len(bytes)))

\* mime.from_buffer (libmagic): the type sniffed from the leading bytes
mime_from_buffer(bytes) ==
    CASE bytes = <<>> -> "application/x-empty"
      [] bytes # <<>> /\ bytes[1] = 37 -> "application/pdf"
      [] OTHER -> "application/octet-stream"

NewDoc == [File_Content |-> None, _Filename |-> None, _Content_Type |-> None,
           Comment |-> None]

\* a File.wd_object that always sniffs the content type
ContentTypeOf_AlwaysSniffed(f) == mime_from_buffer(f.file_content)

ContentTypeOf(f) ==
    IF Truthy(f.content_type) THEN f.content_type ELSE mime_from_buffer(f.file_content)

File_wd_object(f) ==
    LET doc == [NewDoc EXCEPT !.File_Content = b64encode(f.file_content),
                              !._Filename = f.filename,
                              !._Content_Type = ContentTypeOf(f)]
    IN  [out |-> Return(IF Truthy(f.comment) THEN [doc EXCEPT !.Comment = f.comment]
                        ELSE doc),
         events |-> <<Factory(f.field_type)>>]

(***************************************************************************)
(* The transport.  client.factory makes a wire object of a named type and  *)
(* raises TypeNotFound for a type the service does not define; _request is *)
(* one exchange with the service, which answers with a response, a         *)
(* WebFault or a transport error.                                          *)
(***************************************************************************)
ValidationFaultCode == "SOAP-ENV:Client.validationError"

Request(method, data) == [ev |-> "request", what |-> method, data |-> data]

Throw(answer) == [kind |-> "raise", exc |-> answer.kind, fault |-> answer]

_request(method, data, answer) ==
    [out |-> IF answer.kind = "response" THEN Return(answer) ELSE Throw(answer),
     events |-> <<Request(method, data)>>]

ValueOf(part) == IF part.out.kind = "return" THEN part.out.value ELSE NoneObj

RECURSIVE FirstMissing(_, _, _)
FirstMissing(events, missing, i) ==
    IF i > Len(events) THEN 0
    ELSE IF events[i] = Factory(missing) THEN i
    ELSE FirstMissing(events, missing, i + 1)

\* a build of wire objects, cut short at the first factory call that raises
Built(b, missing) ==
    LET i == FirstMissing(b.events, missing, 1)
    IN  IF i = 0 THEN b
        ELSE [out |-> Raise("TypeNotFound"), events |-> SubSeq(b.events, 1, i)]

(***************************************************************************)
(* HumanResources._get_worker_by_id(id_, id_type, return_object)           *)
(***************************************************************************)
WorkerRefs(id_, id_type) ==
    [out |-> Return([Worker_Reference |->
                <<[ID |-> <<[NewIdObj EXCEPT !.value = id_, !._type = id_type]>>]>>]),
     events |-> <<Factory("Worker_Request_ReferencesType"), Factory("WorkerObjectType"),
                  Factory("WorkerObjectIDType")>>]

workday_worker_to_pydantic(worker) ==
    IF worker.valid THEN Return([cls |-> "Worker", workday_id |-> worker.Worker_ID])
    ELSE Raise("ValidationError")

\* an except clause that turns every fault into the ValueError
TranslateFault_AnyFault(r, id_type) ==
    IF r.kind = "raise" /\ r.exc = "WebFault"
    THEN [kind |-> "raise", exc |-> "ValueError",
          msg |-> "Invalid ID of type \"" \o id_type \o "\""]
    ELSE r

\* the except clause: `except WebFault as e`
TranslateFault(r, id_type) ==
    IF r.kind = "raise" /\ r.exc = "WebFault"
           /\ r.fault.faultcode = ValidationFaultCode
    THEN [kind |-> "raise", exc |-> "ValueError",
          msg |-> "Invalid ID of type \"" \o id_type \o "\""]
    ELSE r

_get_worker_by_id(id_, id_type, return_object, n) ==
    LET refs == Built(WorkerRefs(id_, id_type), n.missing_type)
        resp == _request("Get_Workers", ValueOf(refs), n.answer)
        r == TranslateFault(resp.out, id_type)
        events == refs.events \o resp.events
    IN  IF refs.out.kind = "raise" THEN refs
        ELSE IF r.kind = "raise" THEN [out |-> r, events |-> events]
        ELSE IF r.value.Worker = <<>> THEN [out |-> Raise("IndexError"), events |-> events]
        ELSE IF return_object THEN [out |-> Return(r.value.Worker[1]), events |-> events]
        ELSE [out |-> workday_worker_to_pydantic(r.value.Worker[1]), events |-> events]

(***************************************************************************)
(* Domain -> wire mappers of the financial management service.  A build    *)
(* is a sequence of parts, each an outcome with its factory calls; it      *)
(* stops at the first part that raises.                                    *)
(***************************************************************************)
RECURSIVE FirstRaise(_, _)
FirstRaise(parts, i) ==
    IF i > Len(parts) THEN 0
    ELSE IF parts[i].out.kind = "raise" THEN i
    ELSE FirstRaise(parts, i + 1)

RECURSIVE EventsOf(_, _)
EventsOf(parts, n) ==
    IF n = 0 THEN <<>> ELSE EventsOf(parts, n - 1) \o parts[n].events

Made(type, obj) == [out |-> Return(obj), events |-> <<Factory(type)>>]

\* the parts in program order, and the object they make when none raises
Assemble(parts, obj) ==
    LET i == FirstRaise(parts, 1)
    IN  IF i = 0 THEN [out |-> Return(obj), events |-> EventsOf(parts, Len(parts))]
        ELSE [out |-> parts[i].out, events |-> EventsOf(parts, i)]

pydantic_conversion_rate_to_workday(rate) ==
    LET from_currency_id == [NewIdObj EXCEPT !.value = rate.from_currency_iso,
                                             !._type = "Currency_ID"]
        target_currency_id == [NewIdObj EXCEPT !.value = rate.to_currency_iso,
                                               !._type = "Currency_ID"]
        rate_type_id == [NewIdObj EXCEPT !._type = "Currency_Rate_Type_ID",
                                         !.value = rate.rate_type_id]
    IN  Assemble(
            <<Made("Currency_Conversion_Rate_DataType", NoneObj),
              Made("CurrencyObjectIDType", from_currency_id),
              Made("CurrencyObjectIDType", target_currency_id),
              Made("Currency_Rate_TypeObjectIDType", rate_type_id),
              Made("CurrencyObjectType", NoneObj),
              Made("CurrencyObjectType", NoneObj),
              Made("Currency_Rate_TypeObjectType", NoneObj)>>,
            [Effective_Timestamp |-> rate.effective_timestamp,
             Currency_Rate |-> rate.rate,
             Calculate_Inverse_Rate |-> TRUE,
             From_Currency_Reference |-> [ID |-> <<from_currency_id>>],
             Target_Currency_Reference |-> [ID |-> <<target_currency_id>>],
             Currency_Rate_Type_Reference |-> [ID |-> <<rate_type_id>>]])

\* date.strftime('%Y%m%d') of a date [y, m, d] with a four-digit year
Pad2(n) == IF n < 10 THEN "0" \o ToString(n) ELSE ToString(n)

strftime_Ymd(date) == ToString(date.y) \o Pad2(date.m) \o Pad2(date.d)

accounting_journal_id(journal) ==
    strftime_Ymd(journal.accounting_date) \o "-" \o journal.company.workday_id

\* a line mapper that appends the cost center before the spend category
WorktagParts_CostCenterFirst(journal_line) ==
    (IF journal_line.cost_center # NoneObj
     THEN <<wd_object(journal_line.cost_center, None)>> ELSE <<>>)
    \o (IF journal_line.spend_category # NoneObj
        THEN <<wd_object(journal_line.spend_category, None)>> ELSE <<>>)

\* the worktag parts of a journal line: spend category, then cost center
WorktagParts(journal_line) ==
    (IF journal_line.spend_category # NoneObj
     THEN <<wd_object(journal_line.spend_category, None)>> ELSE <<>>)
    \o (IF journal_line.cost_center # NoneObj
        THEN <<wd_object(journal_line.cost_center, None)>> ELSE <<>>)

_pydantic_journal_entry_line_to_workday(journal_line) ==
    LET account == wd_object(journal_line.ledger_account, None)
        tags == WorktagParts(journal_line)
    IN  Assemble(
            <<Made("Journal_Entry_Line_DataType", NoneObj), account>> \o tags,
            [Ledger_Account_Reference |-> ValueOf(account),
             Worktags_Reference |-> [i \in 1..Len(tags) |-> ValueOf(tags[i])],
             Debit_Amount |-> journal_line.debit,
             Credit_Amount |-> journal_line.credit])

pydantic_accounting_journal_to_workday(journal) ==
    LET source == wd_object(journal.journal_source, None)
        currency == IF journal.company.currency # NoneObj
                    THEN <<wd_object(journal.company.currency, None)>> ELSE <<>>
        company == wd_object(journal.company, None)
        ledger == wd_object(journal.ledger_type, None)
        lines == [i \in 1..Len(journal.journal_entry_line_data) |->
                    _pydantic_journal_entry_line_to_workday(
                        journal.journal_entry_line_data[i])]
    IN  Assemble(
            <<Made("Accounting_Journal_DataType", NoneObj), source>> \o currency
                \o <<company, ledger>> \o lines,
            [Accounting_Date |-> journal.accounting_date,
             Accounting_Journal_ID |-> accounting_journal_id(journal),
             Journal_Source_Reference |-> ValueOf(source),
             Currency_Reference |-> IF currency = <<>> THEN NoneObj
                                    ELSE ValueOf(currency[1]),
             Company_Reference |-> ValueOf(company),
             Ledger_Type_Reference |-> ValueOf(ledger),
             Journal_Entry_Line_Replacement_Data |->
                [i \in 1..Len(lines) |-> ValueOf(lines[i])]])

(***************************************************************************)
(* The submission operations: build the payload, then one request.         *)
(***************************************************************************)
\* a submission that sends the request again after a fault
Submit_RetryOnFault(build, method, n) ==
    LET data_object == Built(build, n.missing_type)
        resp == _request(method, ValueOf(data_object), n.answer)
    IN  IF data_object.out.kind = "raise" THEN data_object
        ELSE [out |-> resp.out,
              events |-> data_object.events \o resp.events
                            \o (IF resp.out.kind = "raise" THEN resp.events ELSE <<>>)]

Submit(build, method, n) ==
    LET data_object == Built(build, n.missing_type)
        resp == _request(method, ValueOf(data_object), n.answer)
    IN  IF data_object.out.kind = "raise" THEN data_object
        ELSE [out |-> resp.out, events |-> data_object.events \o resp.events]

put_currency_rate(rate, n) ==
    Submit(pydantic_conversion_rate_to_workday(rate), "Put_Currency_Conversion_Rate", n)

submit_accounting_journal(journal, n) ==
    Submit(pydantic_accounting_journal_to_workday(journal), "Submit_Accounting_Journal", n)

(***************************************************************************)
(* The list operations of FinancialManagement.  Each is a generator        *)
(* function: calling it runs nothing and returns a generator object; the   *)
(* body runs, up to its next yield, when the caller pulls an item.         *)
(* _get_paginated is itself lazy: it requests page p + 1 when the records  *)
(* of page p are used up, and always requests the first page.              *)
(***************************************************************************)
ListOp(method, key, paged, mapper) ==
    [method |-> method, key |-> key, paged |-> paged, mapper |-> mapper]

ListOps ==
    [get_currency_rates |->
        ListOp("Get_Currency_Conversion_Rates", "Currency_Conversion_Rate", TRUE,
               "workday_conversion_rate_to_pydantic"),
     get_currency_rate_types |->
        ListOp("Get_Currency_Rate_Types", "Currency_Rate_Type", TRUE,
               "workday_conversion_rate_type_to_pydantic"),
     get_cost_centers |->
        ListOp("Get_Cost_Centers", "Cost_Center", TRUE, "workday_cost_center_to_pydantic"),
     get_companies |->
        ListOp("Get_Workday_Companies", "Company", TRUE, "workday_company_to_pydantic"),
     get_currencies |->
        ListOp("GetAll_Currencies", "Currency_Data", FALSE, "workday_currency_to_pydantic"),
     get_projects |->
        ListOp("Get_Basic_Projects", "Basic_Project", TRUE, "workday_project_to_pydantic"),
     get_spend_categories |->
        ListOp("Get_Resource_Categories", "Resource_Category", TRUE,
               "workday_spend_category_to_pydantic"),
     get_tax_applicabilities |->
        ListOp("Get_Tax_Applicabilities", "Tax_Applicability", TRUE,
               "workday_tax_applicability_to_pydantic")]

TotalPages(n) == IF n = 0 THEN 1 ELSE (n + PageSize - 1) \div PageSize

\* _get_paginated: whether the next record needs a new page requested
_get_paginated_fetches(pos, fetched, total) ==
    pos >= fetched * PageSize /\ fetched < TotalPages(total)

\* the mapper applied to suds_to_dict(record): a domain object, or the
\* mapper's exception for a record it rejects
Mapped(mapper, rec) == [by |-> mapper, of |-> rec.id]

MapRecord(mapper, rec) ==
    IF rec.good THEN Return(Mapped(mapper, rec)) ELSE Raise("AssertionError")

MapEvent(mapper, rec) == [ev |-> "map", what |-> mapper, data |-> rec]

\* a list operation that is an ordinary function and starts its request at once
NewGenerator_Started(name, raw) ==
    [gen |-> [pc |-> "created", name |-> name, raw |-> raw, pos |-> 0, fetched |-> 1,
              out |-> <<>>],
     events |-> <<Request(ListOps[name].method,
                          IF ListOps[name].paged THEN [Page |-> 1] ELSE NoneObj)>>]

\* the call of a list operation
NewGenerator(name, raw) ==
    [gen |-> [pc |-> "created", name |-> name, raw |-> raw, pos |-> 0, fetched |-> 0,
              out |-> <<>>],
     events |-> <<>>]

\* next(g): the body of the generator up to its next yield
GenNext(g, n) ==
    LET o == ListOps[g.name]
        total == Len(n.records)
        fetch == IF o.paged
                 THEN _get_paginated_fetches(g.pos, g.fetched, total)
                 ELSE g.fetched = 0
        fetched == IF fetch THEN g.fetched + 1 ELSE g.fetched
        req == IF fetch
               THEN _request(o.method, IF o.paged THEN [Page |-> fetched] ELSE NoneObj,
                             IF n.fault_at = fetched THEN n.fault
                             ELSE [kind |-> "response"])
               ELSE [out |-> Return(NoneObj), events |-> <<>>]
        rec == n.records[g.pos + 1]
        item == IF g.raw THEN Return(rec) ELSE MapRecord(o.mapper, rec)
        mapping == IF g.raw THEN <<>> ELSE <<MapEvent(o.mapper, rec)>>
    IN  IF g.pc \notin {"created", "suspended"}
        THEN [gen |-> g, out |-> Raise("StopIteration"), events |-> <<>>]
        ELSE IF req.out.kind = "raise"
        THEN [gen |-> [g EXCEPT !.pc = "failed", !.fetched = fetched],
              out |-> req.out, events |-> req.events]
        ELSE IF g.pos >= total
        THEN [gen |-> [g EXCEPT !.pc = "finished", !.fetched = fetched],
              out |-> Raise("StopIteration"), events |-> req.events]
        ELSE IF item.kind = "raise"
        THEN [gen |-> [g EXCEPT !.pc = "failed", !.fetched = fetched],
              out |-> item, events |-> req.events \o mapping]
        ELSE [gen |-> [g EXCEPT !.pc = "suspended", !.fetched = fetched,
                                !.pos = g.pos + 1, !.out = Append(g.out, item.value)],
              out |-> item, events |-> req.events \o mapping]

(***************************************************************************)
(* Wire -> domain mapping of supplier invoices.  A wire dict is a record   *)
(* with the set of its keys: d.keys; reading a key it lacks is a KeyError. *)
(***************************************************************************)
\* a sort that puts a line before the lines of the same Line_Order already there
InsertByLineOrder_TiesReversed(done, line) ==
    LET k == Cardinality({i \in 1..Len(done) : done[i].Line_Order < line.Line_Order})
    IN  SubSeq(done, 1, k) \o <<line>> \o SubSeq(done, k + 1, Len(done))

\* key=lambda _line: _line["Line_Order"], on a list already sorted: stable
InsertByLineOrder(done, line) ==
    LET k == Cardinality({i \in 1..Len(done) : done[i].Line_Order <= line.Line_Order})
    IN  SubSeq(done, 1, k) \o <<line>> \o SubSeq(done, k + 1, Len(done))

RECURSIVE SortedPrefix(_, _)
SortedPrefix(lines, n) ==
    IF n = 0 THEN <<>> ELSE InsertByLineOrder(SortedPrefix(lines, n - 1), lines[n])

\* an invoice mapper that keeps the lines in wire order
sorted_by_Line_Order_Unsorted(lines) == lines

\* sorted(lines, key=Line_Order)
sorted_by_Line_Order(lines) == SortedPrefix(lines, Len(lines))

\* cls.from_id_list(data[key]["ID"])
Lookup(cls, data, key) ==
    IF key \notin data.keys THEN Raise("KeyError")
    ELSE from_id_list(cls, data[key].ID, NoKw)

\* a loop over the worktags that keeps the first tag with a cost-center ID
RECURSIVE LastCostCenter_FirstWins(_, _)
LastCostCenter_FirstWins(worktags, n) ==
    IF n = 0 THEN NoneObj
    ELSE LET earlier == LastCostCenter_FirstWins(worktags, n - 1)
         IN  IF earlier # NoneObj THEN earlier
             ELSE from_id_list("CostCenterWorktag", worktags[n].ID, NoKw).value

\* the loop over the worktags: the last tag with a cost-center ID wins
RECURSIVE LastCostCenter(_, _)
LastCostCenter(worktags, n) ==
    IF n = 0 THEN NoneObj
    ELSE LET _cost_center == from_id_list("CostCenterWorktag", worktags[n].ID, NoKw)
         IN  IF _cost_center.value # NoneObj THEN _cost_center.value
             ELSE LastCostCenter(worktags, n - 1)

\* a try block that needs the tax rate only and falls back on the defaults of
\* TaxRateOptionsData for the other two
TaxRateOptions_RateOnly(data) ==
    LET tax_option == Lookup("TaxOption", data, "Tax_Option_1_Reference")
        tax_rate == Lookup("TaxRate", data, "Tax_Rate_1_Reference")
        tax_recoverability ==
            Lookup("TaxRecoverability", data, "Tax_Recoverability_1_Reference")
        Or(r, cls, id) == IF r.kind = "raise" \/ r.value = NoneObj
                          THEN Construct(cls, [NoKw EXCEPT !.workday_id = id]).value
                          ELSE r.value
    IN  IF tax_rate.kind = "raise" \/ tax_rate.value = NoneObj
        THEN NoneObj
        ELSE [tax_option |-> Or(tax_option, "TaxOption", "CALC_TAX_DUE"),
              tax_rate |-> tax_rate.value,
              tax_recoverability |->
                Or(tax_recoverability, "TaxRecoverability", "Fully_Recoverable")]

\* the try block: all three references or nothing
TaxRateOptions(data) ==
    LET tax_option == Lookup("TaxOption", data, "Tax_Option_1_Reference")
        tax_rate == Lookup("TaxRate", data, "Tax_Rate_1_Reference")
        tax_recoverability ==
            Lookup("TaxRecoverability", data, "Tax_Recoverability_1_Reference")
    IN  IF \E r \in {tax_option, tax_rate, tax_recoverability} :
                r.kind = "raise" \/ r.value = NoneObj
        THEN NoneObj
        ELSE [tax_option |-> tax_option.value, tax_rate |-> tax_rate.value,
              tax_recoverability |-> tax_recoverability.value]

_workday_invoice_line_to_pydantic(data, order) ==
    LET tax_applicability == Lookup("TaxApplicability", data, "Tax_Applicability_Reference")
        tax_code == Lookup("TaxCode", data, "Tax_Code_Reference")
        spend_category == Lookup("SpendCategory", data, "Spend_Category_Reference")
    IN  IF "Worktags_Reference" \notin data.keys THEN Raise("KeyError")
        ELSE IF tax_applicability.kind = "raise" THEN tax_applicability
        ELSE IF tax_code.kind = "raise" THEN tax_code
        ELSE IF spend_category.kind = "raise" THEN spend_category
        ELSE IF "Extended_Amount" \notin data.keys THEN Raise("KeyError")
        ELSE Return(
            [order |-> order,
             description |-> IF "Item_Description" \in data.keys
                             THEN data.Item_Description ELSE "",
             tax_rate_options_data |-> TaxRateOptions(data),
             tax_applicability |-> tax_applicability.value,
             tax_code |-> tax_code.value,
             spend_category |-> spend_category.value,
             cost_center |-> LastCostCenter(data.Worktags_Reference,
                                            Len(data.Worktags_Reference)),
             project |-> NoneObj,
             gross_amount |-> data.Extended_Amount,
             tax_amount |-> None,
             total_amount |-> None,
             budget_date |-> None])

\* enumerate(sorted(...)): line i of the sorted list is mapped with order i - 1
MappedLines(wire_lines) ==
    LET ordered == sorted_by_Line_Order(wire_lines)
    IN  [i \in 1..Len(ordered) |-> _workday_invoice_line_to_pydantic(ordered[i], i - 1)]

RECURSIVE FirstFailure(_, _)
FirstFailure(outcomes, i) ==
    IF i > Len(outcomes) THEN 0
    ELSE IF outcomes[i].kind = "raise" THEN i
    ELSE FirstFailure(outcomes, i + 1)

workday_supplier_invoice_to_pydantic(data) ==
    LET data_list == data.Supplier_Invoice_Data
        inv == data_list[1]
        lines == MappedLines(inv.Invoice_Line_Replacement_Data)
        failed == FirstFailure(lines, 1)
        company_ref == get_id_from_list(inv.Company_Reference.ID, "Company_Reference_ID")
        currency_ref == get_id_from_list(inv.Currency_Reference.ID, "Currency_ID")
        supplier_ref == get_id_from_list(inv.Supplier_Reference.ID, "Supplier_ID")
        company == Construct("Company", [NoKw EXCEPT !.workday_id = company_ref])
        currency == Construct("Currency", [NoKw EXCEPT !.currency_code = currency_ref])
        supplier == Construct("Supplier", [NoKw EXCEPT !.workday_id = supplier_ref])
        invoice == Construct("SupplierInvoice",
                       [NoKw EXCEPT !.rest = TRUE,
                          !.workday_id = get_id_from_list(data.Supplier_Invoice_Reference.ID,
                                                          "Supplier_Invoice_Reference_ID")])
    IN  IF Len(data_list) # 1 THEN Raise("AssertionError")
        ELSE IF failed # 0 THEN lines[failed]
        ELSE IF None \in {company_ref, currency_ref, supplier_ref}
        THEN Raise("AssertionError")
        ELSE IF company.kind = "raise" THEN company
        ELSE IF currency.kind = "raise" THEN currency
        ELSE IF supplier.kind = "raise" THEN supplier
        ELSE IF invoice.kind = "raise" THEN invoice
        ELSE Return(invoice.value @@
                [invoice_number |-> inv.Invoice_Number,
                 company |-> company.value,
                 currency |-> currency.value,
                 supplier |-> supplier.value,
                 invoice_date |-> inv.Invoice_Date,
                 due_date |-> inv.Due_Date_Override,
                 total_amount |-> inv.Control_Amount_Total,
                 tax_amount |-> inv.Tax_Amount,
                 tax_option |-> NoneObj,
                 lines |-> [i \in 1..Len(lines) |-> lines[i].value],
                 attachments |-> None])

(***************************************************************************)
(* Domain -> wire mapping of supplier invoices.                            *)
(***************************************************************************)
\* the optional reference of a line, made into a wire object when it is set
OptionalRef(e) == IF e # NoneObj THEN <<wd_object(e, None)>> ELSE <<>>

RefValue(parts) == IF parts = <<>> THEN NoneObj ELSE ValueOf(parts[1])

\* the `if tax_opts:` block
WdTaxParts(tax_opts) ==
    IF tax_opts = NoneObj THEN <<>>
    ELSE <<Made("Tax_Rate_Options_DataType", NoneObj),
           wd_object(tax_opts.tax_rate, None),
           wd_object(tax_opts.tax_recoverability, None),
           wd_object(tax_opts.tax_option, None)>>

WdTax(parts) ==
    IF parts = <<>> THEN NoneObj
    ELSE [Tax_Rate_1_Reference |-> ValueOf(parts[2]),
          Tax_Recoverability_1_Reference |-> ValueOf(parts[3]),
          Tax_Option_1_Reference |-> ValueOf(parts[4])]

\* the body of the loop over the lines
WdInvoiceLine(line) ==
    LET spend_category == OptionalRef(line.spend_category)
        wd_tax == WdTaxParts(line.tax_rate_options_data)
        tax_applicability == OptionalRef(line.tax_applicability)
        tax_code == OptionalRef(line.tax_code)
        cost_center == OptionalRef(line.cost_center)
    IN  Assemble(
            <<Made("Supplier_Invoice_Line_Replacement_DataType", NoneObj)>>
                \o spend_category \o wd_tax \o tax_applicability \o tax_code
                \o cost_center,
            [Line_Order |-> line.order,
             Item_Description |-> line.description,
             Extended_Amount |-> line.gross_amount,
             Spend_Category_Reference |-> RefValue(spend_category),
             Tax_Rate_Options_Data |-> WdTax(wd_tax),
             Tax_Applicability_Reference |-> RefValue(tax_applicability),
             Tax_Code_Reference |-> RefValue(tax_code),
             Worktags_Reference |->
                [i \in 1..Len(cost_center) |-> ValueOf(cost_center[i])]])

WdInvoiceLines(lines) ==
    LET parts == [i \in 1..Len(lines) |-> WdInvoiceLine(lines[i])]
    IN  Assemble(parts, [i \in 1..Len(lines) |-> ValueOf(parts[i])])

\* a line mapper that numbers the wire lines by their place in the list
_get_wd_invoice_lines_from_invoice_Reindexed(lines) ==
    WdInvoiceLines([i \in 1..Len(lines) |-> [lines[i] EXCEPT !.order = i - 1]])

_get_wd_invoice_lines_from_invoice(lines) == WdInvoiceLines(lines)

\* str(date): ISO 8601
str_date(date) == ToString(date.y) \o "-" \o Pad2(date.m) \o "-" \o Pad2(date.d)

pydantic_supplier_invoice_to_workday(invoice) ==
    LET company == wd_object(invoice.company, None)
        currency == wd_object(invoice.currency, None)
        supplier == wd_object(invoice.supplier, None)
        tax_option == OptionalRef(invoice.tax_option)
        lines == _get_wd_invoice_lines_from_invoice(invoice.lines)
        attachments == IF invoice.attachments = None THEN <<>>
                       ELSE [i \in 1..Len(invoice.attachments) |->
                                File_wd_object(invoice.attachments[i])]
    IN  Assemble(
            <<Made("Supplier_Invoice_DataType", NoneObj), company, currency, supplier>>
                \o tax_option \o <<lines>> \o attachments,
            [Supplier_Invoice_ID |-> None,
             Submit |-> TRUE,
             Locked_in_Workday |-> TRUE,
             Invoice_Number |-> invoice.invoice_number,
             Suppliers_Invoice_Number |-> invoice.invoice_number,
             Company_Reference |-> ValueOf(company),
             Currency_Reference |-> ValueOf(currency),
             Supplier_Reference |-> ValueOf(supplier),
             Default_Tax_Option_Reference |-> RefValue(tax_option),
             Invoice_Date |-> str_date(invoice.invoice_date),
             Due_Date_Override |-> str_date(invoice.due_date),
             Control_Amount_Total |-> invoice.total_amount,
             Invoice_Line_Replacement_Data |-> ValueOf(lines),
             Attachment_Data |-> IF attachments = <<>> THEN NoneObj
                                 ELSE [i \in 1..Len(attachments) |->
                                          ValueOf(attachments[i])]])

(***************************************************************************)
(* Wire -> domain mappers of the financial management service.             *)
(***************************************************************************)
RaiseMsg(e, msg) == [kind |-> "raise", exc |-> e, msg |-> msg]

RateTypeIDs == {"Current", "Merit", "Budget", "Average"}

IsoMaxLength == 3

\* a cardinality check that accepts any non-empty list
ExactlyOne_AtLeastOne(list) == Len(list) >= 1

\* assert len(...) == 1
ExactlyOne(list) == Len(list) = 1

workday_conversion_rate_to_pydantic(data) ==
    LET workday_id == get_id_from_list(data.Currency_Conversion_Rate_Reference.ID, "WID")
        sub_data == data.Currency_Conversion_Rate_Data[1]
        from_ref == get_id_from_list(sub_data.From_Currency_Reference.ID, "Currency_ID")
        target_ref == get_id_from_list(sub_data.Target_Currency_Reference.ID, "Currency_ID")
        type_id == get_id_from_list(sub_data.Currency_Rate_Type_Reference.ID,
                                    "Currency_Rate_Type_ID")
    IN  IF ~ExactlyOne(data.Currency_Conversion_Rate_Data)
        THEN RaiseMsg("AssertionError",
                      "Code is written expecting that we only have one currency rate data per object, but that is not the case here")
        ELSE IF \E k \in {"From_Currency_Reference", "Target_Currency_Reference",
                          "Currency_Rate_Type_Reference"} : k \notin sub_data.keys
        THEN Raise("KeyError")
        ELSE IF ~Truthy(workday_id)
        THEN RaiseMsg("AssertionError", "All currency conversion rates need a Workday ID")
        ELSE IF ~Truthy(from_ref)
        THEN RaiseMsg("AssertionError",
                      "All currency conversion rates need a 'from currency'-reference")
        ELSE IF ~Truthy(target_ref)
        THEN RaiseMsg("AssertionError",
                      "All currency conversion rates need a 'target currency'-reference")
        ELSE IF ~Truthy(type_id)
        THEN RaiseMsg("AssertionError",
                      "All currency conversion rates need a 'rate type'-reference")
        ELSE IF "Currency_Rate" \notin sub_data.keys THEN Raise("KeyError")
        ELSE IF type_id \notin RateTypeIDs THEN Raise("ValueError")
        ELSE IF "Effective_Timestamp" \notin sub_data.keys THEN Raise("KeyError")
        ELSE IF Len(from_ref) > IsoMaxLength \/ Len(target_ref) > IsoMaxLength
        THEN Raise("ValidationError")
        ELSE Return([workday_id |-> workday_id,
                     from_currency_iso |-> from_ref,
                     to_currency_iso |-> target_ref,
                     rate |-> sub_data.Currency_Rate,
                     rate_type_id |-> type_id,
                     effective_timestamp |-> sub_data.Effective_Timestamp])

CountryCodeMaxLength == 2

\* a company mapper that takes the last tax-status entry
TaxStatusEntry_Last(tax_status_data) == tax_status_data[Len(tax_status_data)]

\* cdata["Tax_Status_Data"][0]
TaxStatusEntry(tax_status_data) == tax_status_data[1]

workday_company_to_pydantic(data) ==
    LET cdata == data.Company_Data[1]
        currency_code == get_id_from_list(cdata.Accounting_Data.Currency_Reference.ID,
                                          "Currency_ID")
        country_code ==
            IF "Tax_Status_Data" \in cdata.keys
            THEN get_id_from_list(TaxStatusEntry(cdata.Tax_Status_Data).Country_Reference.ID,
                                  "ISO_3166-1_Alpha-2_Code")
            ELSE None
        currency == IF Truthy(currency_code)
                    THEN Construct("Currency", [NoKw EXCEPT !.currency_code = currency_code])
                    ELSE Return(NoneObj)
        company == Construct("Company",
                             [NoKw EXCEPT !.workday_id = cdata.Organization_Data.ID])
    IN  IF Len(data.Company_Data) # 1
        THEN RaiseMsg("AssertionError", "Company_Data for each company should be singular")
        ELSE IF "Tax_Status_Data" \in cdata.keys /\ cdata.Tax_Status_Data = <<>>
        THEN Raise("IndexError")
        ELSE IF currency.kind = "raise" THEN currency
        ELSE IF company.kind = "raise" THEN company
        ELSE IF country_code # None /\ Len(country_code) > CountryCodeMaxLength
        THEN Raise("ValidationError")
        ELSE Return(company.value @@
                [name |-> cdata.Organization_Data.Organization_Name,
                 country_code |-> country_code,
                 currency |-> currency.value])

(***************************************************************************)
(* Wire -> domain mapping of suppliers.  Text that is searched or rewritten *)
(* is a sequence of characters.                                            *)
(***************************************************************************)
NewlineEscape == <<"&", "#", "x", "a", ";">>

Newline == "\n"

\* str.replace("&#xa;", "\n"): every occurrence, left to right, not overlapping
RECURSIVE replace_newline_escape(_)
replace_newline_escape(text) ==
    IF Len(text) < Len(NewlineEscape) THEN text
    ELSE IF SubSeq(text, 1, Len(NewlineEscape)) = NewlineEscape
    THEN <<Newline>> \o replace_newline_escape(SubSeq(text, Len(NewlineEscape) + 1, Len(text)))
    ELSE <<Head(text)>> \o replace_newline_escape(Tail(text))

\* sorted(..., reverse=True, key=_Effective_Date): descending, entries with
\* equal dates in their original order
InsertByEffectiveDate(done, addr) ==
    LET k == Cardinality({i \in 1..Len(done) :
                            done[i]._Effective_Date >= addr._Effective_Date})
    IN  SubSeq(done, 1, k) \o <<addr>> \o SubSeq(done, k + 1, Len(done))

RECURSIVE LatestFirst(_, _)
LatestFirst(address_info, n) ==
    IF n = 0 THEN <<>>
    ELSE InsertByEffectiveDate(LatestFirst(address_info, n - 1), address_info[n])

\* a contact mapper that takes the first address of the list
CurrentAddress_First(address_info) == address_info[1]

\* current = sorted(address_info, reverse=True, key=...)[0]
CurrentAddress(address_info) == LatestFirst(address_info, Len(address_info))[1]

\* data.get(key, None), and the truth value `if x_info:` tests
Get(data, key) == IF key \in data.keys THEN data[key] ELSE <<>>

_get_contact_data_from_dict(data) ==
    LET address_info == Get(data, "Address_Data")
        phone_info == Get(data, "Phone_Data")
        email_info == Get(data, "Email_Address_Data")
        url_info == Get(data, "Web_Address_Data")
    IN  [address |-> IF address_info # <<>>
                     THEN replace_newline_escape(
                              CurrentAddress(address_info)._Formatted_Address)
                     ELSE Missing,
         phone |-> IF phone_info # <<>> THEN phone_info[1]._E164_Formatted_Phone
                   ELSE Missing,
         email |-> IF email_info # <<>> THEN email_info[1].Email_Address ELSE Missing,
         url |-> IF url_info # <<>> THEN url_info[1].Web_Address ELSE Missing]

\* canonical field of each Workday tax ID type
TAX_ID_SPEC ==
    {<<"AUT-UID", "tax_id_au">>, <<"BEL-NOTVA", "tax_id_be">>, <<"CHE-EID", "tax_id_ch">>,
     <<"DEU-USTIDNR", "tax_id_de">>, <<"DNK-MOMS", "tax_id_dk">>, <<"ESP-IVA", "tax_id_es">>,
     <<"FIN-ALV", "tax_id_fi">>, <<"GBR-VATREGNO", "tax_id_gb">>, <<"IRE-VATNO", "tax_id_ir">>,
     <<"NLD-BTWNR", "tax_id_nl">>, <<"NOR-VAT", "tax_id_no">>, <<"POL-VATNIP", "tax_id_pl">>,
     <<"SWE-MOMSNR", "tax_id_se">>, <<"USA-EIN", "tax_id_us">>}

\* _get_tax_id_from_dict: the dict after the first n entries of Tax_ID_Data, as
\* a function of the Supplier tax fields, or the exception of an entry
RECURSIVE _get_tax_id_from_dict(_, _)
_get_tax_id_from_dict(tax_id_data, n) ==
    IF n = 0 THEN Return([f \in {p[2] : p \in TAX_ID_SPEC} |-> None])
    ELSE LET before == _get_tax_id_from_dict(tax_id_data, n - 1)
             tax_id_type == tax_id_data[n]
             type_ref_value == get_id_from_list(tax_id_type.Tax_ID_Type_Reference.ID,
                                                "Tax_ID_Type")
             names == {p[2] : p \in {q \in TAX_ID_SPEC : q[1] = type_ref_value}}
         IN  IF before.kind = "raise" THEN before
             ELSE IF ~Truthy(type_ref_value)
             THEN RaiseMsg("AssertionError",
                           "Tax ID type is an expected reference in this object")
             ELSE IF names = {} THEN Raise("KeyError")
             ELSE Return([f \in DOMAIN before.value |->
                            IF f \in names THEN tax_id_type.Tax_ID_Text
                            ELSE before.value[f]])

\* settlement_data[0] if settlement_data else {}
_get_account_data_from_dict(settlement_data) ==
    IF settlement_data = <<>> THEN [iban |-> None, bank_account |-> None]
    ELSE [iban |-> settlement_data[1].IBAN,
          bank_account |-> settlement_data[1].Bank_Account_Number]

\* a supplier mapper that rejects only an absent Supplier_ID
NoId_AbsentOnly(sup_id) == sup_id = None

\* if not sup_id
NoId(sup_id) == ~Truthy(sup_id)

workday_supplier_to_pydantic(data) ==
    LET sup_data == data.Supplier_Data
        Opt(key) == IF key \in sup_data.keys THEN sup_data[key] ELSE None
        sup_id == Opt("Supplier_ID")
        tax_id_data == _get_tax_id_from_dict(Get(sup_data, "Tax_ID_Data"),
                                             Len(Get(sup_data, "Tax_ID_Data")))
        account_data == _get_account_data_from_dict(Get(sup_data, "Settlement_Account_Data"))
        contact_data == _get_contact_data_from_dict(sup_data.Contact_Data)
        supplier == Construct("Supplier", [NoKw EXCEPT !.workday_id = sup_id])
    IN  IF NoId(sup_id) THEN Raise("NoSupplierID")
        ELSE IF tax_id_data.kind = "raise" THEN tax_id_data
        ELSE IF "Business_Entity_Data" \notin sup_data.keys THEN Raise("KeyError")
        ELSE IF "Supplier_Name" \notin sup_data.keys THEN Raise("KeyError")
        ELSE IF supplier.kind = "raise" THEN supplier
        ELSE Return(supplier.value @@
                [reference_id |-> Opt("Supplier_Reference_ID"),
                 name |-> sup_data.Supplier_Name,
                 payment_terms |->
                    IF "Payment_Terms_Reference" \in sup_data.keys
                    THEN get_id_from_list(sup_data.Payment_Terms_Reference.ID,
                                          "Payment_Terms_ID")
                    ELSE None,
                 currency |->
                    IF "Currency_Reference" \in sup_data.keys
                    THEN get_id_from_list(sup_data.Currency_Reference.ID, "Currency_ID")
                    ELSE None,
                 address |-> Default(contact_data.address, None),
                 phone |-> Default(contact_data.phone, None),
                 email |-> Default(contact_data.email, None),
                 url |-> Default(contact_data.url, None),
                 iban |-> account_data.iban,
                 bank_account |-> account_data.bank_account,
                 tax_ids |-> tax_id_data.value])

(***************************************************************************)
(* HumanResources.get_workers(as_of_date).  A date is [ordinal |-> n], its  *)
(* proleptic day number; today is what date.today() returns during the     *)
(* call.  The result is the call of _get_paginated that get_workers makes.  *)
(***************************************************************************)
get_workers(as_of_date, today) ==
    [method |-> "Get_Workers",
     key |-> "Worker",
     filters |->
        IF as_of_date # NoneObj
        THEN [keys |-> {"As_Of_Effective_Date"},
              As_Of_Effective_Date |-> [ordinal |-> today.ordinal + 15]]
        ELSE [keys |-> {}, As_Of_Effective_Date |-> NoneObj]]

(***************************************************************************)
(* Inputs                                                                  *)
(***************************************************************************)
Bytes == {0, 37, 255}

Files ==
    [field_type : {"Financials_Attachment_DataType"},
     filename : {"", "a.pdf"},
     file_content : SeqsUpTo(Bytes, MaxContent),
     comment : {None, "", "note"},
     content_type : {None, "", "text/plain"}]

Ids == {"", "A", "LONG"}

IdTypes(cls) ==
    {"WID", None, "Currency_ID"} \cup
        (IF ClassDef(cls).id_type = None THEN {} ELSE {ClassDef(cls).id_type})

ParentIds == {"", "P"}

\* keyword sets a caller may pass to a constructor
Kwargs(cls) ==
    [workday_id : {Missing, None} \cup Ids,
     currency_code : {Missing, "NOK"},
     workday_id_type : {Missing, "WID"} \cup
        (IF ClassDef(cls).id_type = None THEN {} ELSE {ClassDef(cls).id_type}),
     workday_parent_id : {Missing} \cup ParentIds,
     workday_parent_type : {Missing, "Account_Set_ID"},
     rest : BOOLEAN]

\* the entities of a class that can be constructed
Entities(cls) ==
    {Construct(cls, kw).value : kw \in {k \in Kwargs(cls) : Validates(cls, k)}}

\* the extra keywords of from_id_list
Extras ==
    {NoKw,
     [NoKw EXCEPT !.workday_parent_id = "P"],
     [NoKw EXCEPT !.rest = TRUE],
     [NoKw EXCEPT !.currency_code = "NOK"],
     [NoKw EXCEPT !.workday_id_type = "WID"],
     [NoKw EXCEPT !.workday_id = "A"]}

IdEntries(cls) ==
    [_type : IdTypes(cls), value : Ids \cup {None}, _parent_id : {None},
     _parent_type : {None}]

IdLists(cls) == SeqsUpTo(IdEntries(cls), MaxIdList)

ClassNameArgs == {None, "", "SupplierObject"}

\* what the service may answer to a request
FaultCodes == {ValidationFaultCode, "SOAP-ENV:Client.authenticationError", "SOAP-ENV:Client"}

Faults == [kind : {"WebFault"}, faultcode : FaultCodes, faultstring : {"rejected"}]

TransportErrors == {[kind |-> "TransportError"]}

WireWorkers == [Worker_ID : {"W1"}, valid : BOOLEAN]

WorkerAnswers ==
    {[kind |-> "response", Worker |-> w] : w \in SeqsUpTo(WireWorkers, 1)}
        \cup Faults \cup TransportErrors

SubmitAnswers == {[kind |-> "response"]} \cup Faults \cup TransportErrors

Nets(answers, types) == [answer : answers, missing_type : {None} \cup types]

\* conversion rates
Rates ==
    [workday_id : {None}, from_currency_iso : {"NOK"}, to_currency_iso : {"EUR", "SEK"},
     rate : {"10.5"}, rate_type_id : {"Current", "Merit", "Budget", "Average"},
     effective_timestamp : {"2024-01-05T00:00:00"}]

\* journals
Ref(cls, id) == Entity(cls, [NoKw EXCEPT !.workday_id = id])

Dates == {[y |-> 2024, m |-> 1, d |-> 5], [y |-> 2023, m |-> 12, d |-> 31]}

Companies ==
    {Ref("Company", id) @@ [currency |-> c] :
        id \in {"A", "B"},
        c \in {NoneObj, Entity("Currency", [NoKw EXCEPT !.currency_code = "NOK"])}}

JournalLines ==
    [ledger_account : {Entity("LedgerAccount",
                          [NoKw EXCEPT !.workday_id = "6000", !.workday_parent_id = "P"])},
     debit : {"10.00"},
     credit : {None},
     cost_center : {NoneObj, Ref("CostCenterWorktag", "A")},
     spend_category : {NoneObj, Ref("SpendCategory", "A")}]
    \cup
    [ledger_account : {Entity("LedgerAccount",
                          [NoKw EXCEPT !.workday_id = "2400", !.workday_parent_id = "P"])},
     debit : {None},
     credit : {"10.00"},
     cost_center : {NoneObj},
     spend_category : {NoneObj}]

Journals ==
    [accounting_date : Dates,
     company : Companies,
     ledger_type : {Ref("LedgerType", "Actuals")},
     journal_source : {Ref("JournalSource", "Spreadsheet_Upload")},
     journal_entry_line_data : SeqsUpTo(JournalLines, MaxJournalLines)]

\* the records the service holds for a list operation (the id of a record is
\* its place), and the request, if any, that it answers with a fault
WireRecords ==
    UNION {{[i \in 1..k |-> [id |-> i, good |-> g[i]]] : g \in [1..k -> BOOLEAN]} :
              k \in 0..MaxRecords}

ListNets ==
    [records : WireRecords, fault_at : 0..2,
     fault : {[kind |-> "WebFault", faultcode |-> "SOAP-ENV:Client",
               faultstring |-> "rejected"]}]

\* supplier invoices on the wire
IdRef(type, value) == [ID |-> <<[NewIdObj EXCEPT !._type = "WID", !.value = "wid"],
                                [NewIdObj EXCEPT !._type = type, !.value = value]>>]

NoIdRef == [ID |-> <<[NewIdObj EXCEPT !._type = "WID", !.value = "wid"]>>]

LineKeys ==
    {"Line_Order", "Item_Description", "Extended_Amount", "Worktags_Reference",
     "Tax_Option_1_Reference", "Tax_Rate_1_Reference", "Tax_Recoverability_1_Reference",
     "Tax_Applicability_Reference", "Tax_Code_Reference", "Spend_Category_Reference"}

WireLine(line_order, description, keys) ==
    [keys |-> keys,
     Line_Order |-> line_order,
     Item_Description |-> description,
     Extended_Amount |-> "100.00",
     Worktags_Reference |-> <<IdRef("Cost_Center_Reference_ID", "A")>>,
     Tax_Option_1_Reference |-> IdRef("Tax_Option_ID", "CALC_TAX_DUE"),
     Tax_Rate_1_Reference |-> IdRef("Tax_Rate_ID", "NOR_25"),
     Tax_Recoverability_1_Reference |->
        IdRef("Tax_Recoverability_Object_ID", "Fully_Recoverable"),
     Tax_Applicability_Reference |-> IdRef("Tax_Applicability_ID", "NOR_HIGH"),
     Tax_Code_Reference |-> IdRef("Tax_Code_ID", "NOR_25"),
     Spend_Category_Reference |-> IdRef("Spend_Category_ID", "A")]

WireLines ==
    {WireLine(o, d, LineKeys) : o \in 0..MaxOrder, d \in {"a", "b"}}
        \cup {WireLine(0, "c", LineKeys \ {"Tax_Code_Reference"})}

WireInvoiceData(lines, company) ==
    [Invoice_Line_Replacement_Data |-> lines,
     Company_Reference |-> company,
     Currency_Reference |-> IdRef("Currency_ID", "NOK"),
     Supplier_Reference |-> IdRef("Supplier_ID", "S1"),
     Invoice_Number |-> "INV-1",
     Invoice_Date |-> "2024-01-05",
     Due_Date_Override |-> "2024-02-05",
     Control_Amount_Total |-> "100.00",
     Tax_Amount |-> "20.00"]

WireInvoices ==
    {[Supplier_Invoice_Reference |-> IdRef("Supplier_Invoice_Reference_ID", "I1"),
      Supplier_Invoice_Data |-> [i \in 1..k |-> WireInvoiceData(lines, company)]] :
        lines \in SeqsUpTo(WireLines, MaxLines),
        company \in {IdRef("Company_Reference_ID", "A"), NoIdRef},
        k \in {1}}
    \cup
    {[Supplier_Invoice_Reference |-> IdRef("Supplier_Invoice_Reference_ID", "I1"),
      Supplier_Invoice_Data |->
        [i \in 1..k |-> WireInvoiceData(<<>>, IdRef("Company_Reference_ID", "A"))]] :
        k \in {0, 2}}

\* supplier invoices of the domain
InvoiceLine(order, description, full, cost_center) ==
    [order |-> order,
     description |-> description,
     tax_rate_options_data |->
        IF full
        THEN [tax_rate |-> Ref("TaxRate", "NOR_25"),
              tax_recoverability |-> Ref("TaxRecoverability", "Fully_Recoverable"),
              tax_option |-> Ref("TaxOption", "CALC_TAX_DUE")]
        ELSE NoneObj,
     tax_applicability |-> IF full THEN Ref("TaxApplicability", "NOR_HIGH") ELSE NoneObj,
     tax_code |-> IF full THEN Ref("TaxCode", "NOR_25") ELSE NoneObj,
     spend_category |-> IF full THEN Ref("SpendCategory", "A") ELSE NoneObj,
     cost_center |-> cost_center,
     project |-> NoneObj,
     gross_amount |-> "100.00",
     tax_amount |-> None,
     total_amount |-> None,
     budget_date |-> None]

Invoices ==
    {Entity("SupplierInvoice", [NoKw EXCEPT !.rest = TRUE, !.workday_id = id]) @@
        [invoice_number |-> "INV-1",
         company |-> Ref("Company", "A"),
         currency |-> Entity("Currency", [NoKw EXCEPT !.currency_code = "NOK"]),
         supplier |-> Ref("Supplier", "S1"),
         invoice_date |-> [y |-> 2024, m |-> 1, d |-> 5],
         due_date |-> [y |-> 2024, m |-> 2, d |-> 5],
         total_amount |-> "100.00",
         tax_amount |-> "20.00",
         tax_option |-> tax_option,
         lines |-> lines,
         attachments |-> None] :
        id \in {None, "I1"},
        tax_option \in {NoneObj, Ref("TaxOption", "CALC_TAX_DUE")},
        lines \in SeqsUpTo(
            {InvoiceLine(o, "a", TRUE, Ref("CostCenterWorktag", "A")) : o \in 0..MaxOrder}
            \cup {InvoiceLine(o, "b", FALSE, NoneObj) : o \in 0..MaxOrder}
            \cup {InvoiceLine(o, "c", FALSE, Ref("CostCenterWorktag", "B")) :
                    o \in 0..MaxOrder},
            MaxLines)}

\* conversion rates on the wire
WidOnly == [ID |-> <<[NewIdObj EXCEPT !._type = "WID", !.value = "wid"]>>]

RateSubKeys ==
    {"From_Currency_Reference", "Target_Currency_Reference",
     "Currency_Rate_Type_Reference", "Currency_Rate", "Effective_Timestamp"}

WireRates ==
    [Currency_Conversion_Rate_Reference : {WidOnly, [ID |-> <<>>]},
     Currency_Conversion_Rate_Data :
        SeqsUpTo(
            {[keys |-> keys,
              From_Currency_Reference |-> from,
              Target_Currency_Reference |-> target,
              Currency_Rate_Type_Reference |-> type,
              Currency_Rate |-> "10.5",
              Effective_Timestamp |-> "2024-01-05T00:00:00"] :
                keys \in {RateSubKeys, RateSubKeys \ {"Currency_Rate_Type_Reference"}},
                from \in {IdRef("Currency_ID", "NOK"), IdRef("Currency_ID", "LONG")},
                target \in {IdRef("Currency_ID", "EUR"), WidOnly},
                type \in {IdRef("Currency_Rate_Type_ID", "Current"),
                          IdRef("Currency_Rate_Type_ID", "Daily"), WidOnly}},
            MaxRateData)]

\* companies on the wire
WireCompanyData ==
    {[keys |-> keys,
      Organization_Data |-> [ID |-> "A", Organization_Name |-> "Oda"],
      Accounting_Data |-> [Currency_Reference |-> currency],
      Tax_Status_Data |-> tax_status] :
        keys \in {{"Organization_Data", "Accounting_Data", "Tax_Status_Data"},
                  {"Organization_Data", "Accounting_Data"}},
        currency \in {IdRef("Currency_ID", "NOK"), WidOnly},
        tax_status \in SeqsUpTo(
            [Country_Reference :
                {IdRef("ISO_3166-1_Alpha-2_Code", c) : c \in {"NO", "SE", "NOR"}}
                    \cup {WidOnly}],
            MaxTaxStatus)}

WireCompanies ==
    {[Company_Data |-> <<cdata>>] : cdata \in WireCompanyData}
    \cup {[Company_Data |-> <<>>]}
    \cup {[Company_Data |-> <<cdata, cdata>>] :
            cdata \in {c \in WireCompanyData : c.Tax_Status_Data = <<>>}}

\* supplier contact data on the wire
Contact(keys, address, phone, email, url) ==
    [keys |-> keys, Address_Data |-> address, Phone_Data |-> phone,
     Email_Address_Data |-> email, Web_Address_Data |-> url]

ContactData ==
    LET ContactKeys ==
            {"Address_Data", "Phone_Data", "Email_Address_Data", "Web_Address_Data"}
    IN  {Contact(keys, address, <<>>, <<>>, <<>>) :
            keys \in {ContactKeys, {}},
            address \in SeqsUpTo(
                [_Effective_Date : 1..MaxDate,
                 _Formatted_Address :
                    {<<"A", "&", "#", "x", "a", ";", "B">>,
                     <<"&", "#", "x", "a", ";", "&", "#", "x", "a", ";", "C">>,
                     <<"D", "&", "#", "x", "a", "E">>}],
                MaxContacts)}
        \cup {Contact(ContactKeys, <<>>, phone, <<>>, <<>>) :
                phone \in SeqsUpTo(
                    [_Effective_Date : 1..MaxDate,
                     _E164_Formatted_Phone : {"+4711", "+4722"}], MaxContacts)}
        \cup {Contact(ContactKeys, <<>>, <<>>, email, url) :
                email \in SeqsUpTo(
                    [_Effective_Date : 1..MaxDate,
                     Email_Address : {"a@oda.com", "b@oda.com"}], MaxContacts),
                url \in SeqsUpTo(
                    [_Effective_Date : 1..MaxDate,
                     Web_Address : {"oda.com", "oda.no"}], MaxContacts)}

\* suppliers on the wire.  The widgets are flattened into the record:
\* Tax_ID_Data stands for Tax_ID_Widget_Data.Tax_ID_Data, Settlement_Account_Data
\* for Settlement_Account_Widget_Data.Settlement_Account_Data and Contact_Data
\* for Business_Entity_Data.Contact_Data.
WireSuppliers ==
    {[Supplier_Data |->
        [keys |-> ({"Supplier_Reference_ID", "Currency_Reference"} \cup id_key \cup keys
                    \cup (IF rich THEN {"Tax_ID_Data", "Settlement_Account_Data",
                                        "Payment_Terms_Reference"} ELSE {})),
         Supplier_ID |-> id,
         Supplier_Reference_ID |-> "REF-1",
         Supplier_Name |-> "Oda",
         Business_Entity_Data |-> TRUE,
         Contact_Data |-> contact,
         Tax_ID_Data |-> tax,
         Settlement_Account_Data |-> <<[IBAN |-> "NO93", Bank_Account_Number |-> "8601"]>>,
         Currency_Reference |-> IdRef("Currency_ID", "NOK"),
         Payment_Terms_Reference |-> IdRef("Payment_Terms_ID", "NET30")]] :
        id_key \in {{}, {"Supplier_ID"}},
        id \in {"", "S1"},
        keys \in SUBSET {"Supplier_Name", "Business_Entity_Data"},
        rich \in BOOLEAN,
        tax \in {<<[Tax_ID_Type_Reference |-> IdRef("Tax_ID_Type", t),
                    Tax_ID_Text |-> "984661185"]>> : t \in {"NOR-VAT", "XXX-VAT"}}
                \cup {<<[Tax_ID_Type_Reference |-> WidOnly, Tax_ID_Text |-> "1"]>>},
        contact \in {c \in ContactData :
                        c.Phone_Data = <<>> /\ c.Email_Address_Data = <<>>
                            /\ c.Web_Address_Data = <<>> /\ Len(c.Address_Data) = 1
                            /\ c.Address_Data[1]._Effective_Date = 1}}

NoGen == [pc |-> "none"]

NoNet == [answer |-> NoneObj]

(***************************************************************************)
(* Operations.  The client keeps no state between calls: every call starts *)
(* from the idle state, and Finish is the caller dropping the outcome.     *)
(***************************************************************************)
Init ==
    /\ op = "idle"
    /\ arg = NoneObj
    /\ ret = NoneObj
    /\ log = <<>>
    /\ gen = NoGen
    /\ net = NoNet

\* the constructor call of cls with keywords kw
CallConstruct ==
    /\ op = "idle"
    /\ \E cls \in Classes : \E kw \in Kwargs(cls) :
        /\ op' = "construct"
        /\ arg' = [cls |-> cls, kw |-> kw]
        /\ ret' = Construct(cls, kw)
        /\ log' = <<>>
        /\ gen' = NoGen
        /\ net' = NoNet

\* e.wd_object(client, class_name)
CallWdObject ==
    /\ op = "idle"
    /\ \E cls \in Classes : \E e \in Entities(cls) : \E class_name \in ClassNameArgs :
        LET r == wd_object(e, class_name)
        IN  /\ op' = "wd_object"
            /\ arg' = [e |-> e, class_name |-> class_name]
            /\ ret' = r.out
            /\ log' = r.events
            /\ gen' = NoGen
            /\ net' = NoNet

\* cls.from_id_list(id_list, extra)
CallFromIdList ==
    /\ op = "idle"
    /\ \E cls \in Classes : \E id_list \in IdLists(cls) : \E extra \in Extras :
        /\ op' = "from_id_list"
        /\ arg' = [cls |-> cls, id_list |-> id_list, extra |-> extra]
        /\ ret' = from_id_list(cls, id_list, extra)
        /\ log' = <<>>
        /\ gen' = NoGen
        /\ net' = NoNet

\* cls.from_id_list(e.wd_object(client, class_name).ID): the round trip
RoundTrip(e, class_name) ==
    LET w == wd_object(e, class_name)
    IN  IF w.out.kind = "raise"
        THEN w
        ELSE [out |-> from_id_list(e.cls, w.out.value.ID, NoKw), events |-> w.events]

CallRoundTrip ==
    /\ op = "idle"
    /\ \E cls \in Classes : \E e \in Entities(cls) : \E class_name \in ClassNameArgs :
        LET r == RoundTrip(e, class_name)
        IN  /\ op' = "round_trip"
            /\ arg' = [e |-> e, class_name |-> class_name]
            /\ ret' = r.out
            /\ log' = r.events
            /\ gen' = NoGen
            /\ net' = NoNet

\* f.wd_object(client) of a File
CallFileWdObject ==
    /\ op = "idle"
    /\ \E f \in Files :
        LET r == File_wd_object(f)
        IN  /\ op' = "file_wd_object"
            /\ arg' = f
            /\ ret' = r.out
            /\ log' = r.events
            /\ gen' = NoGen
            /\ net' = NoNet

\* self._get_worker_by_id(id_, id_type, return_object)
CallGetWorkerById ==
    /\ op = "idle"
    /\ \E id_ \in {"W1", "nobody"} : \E id_type \in {"WID", "Employee_ID", "Bogus"} :
       \E return_object \in BOOLEAN :
       \E n \in Nets(WorkerAnswers, {"WorkerObjectIDType"}) :
        LET r == _get_worker_by_id(id_, id_type, return_object, n)
        IN  /\ op' = "_get_worker_by_id"
            /\ arg' = [id_ |-> id_, id_type |-> id_type, return_object |-> return_object]
            /\ ret' = r.out
            /\ log' = r.events
            /\ gen' = NoGen
            /\ net' = n

\* self.put_currency_rate(rate)
CallPutCurrencyRate ==
    /\ op = "idle"
    /\ \E rate \in Rates :
       \E n \in Nets(SubmitAnswers, {"Currency_Rate_TypeObjectIDType"}) :
        LET r == put_currency_rate(rate, n)
        IN  /\ op' = "put_currency_rate"
            /\ arg' = rate
            /\ ret' = r.out
            /\ log' = r.events
            /\ gen' = NoGen
            /\ net' = n

\* self.submit_accounting_journal(journal)
CallSubmitAccountingJournal ==
    /\ op = "idle"
    /\ \E journal \in Journals :
       \E n \in Nets(SubmitAnswers, {"Journal_Entry_Line_DataType", "Spend_CategoryObjectType"}) :
        LET r == submit_accounting_journal(journal, n)
        IN  /\ op' = "submit_accounting_journal"
            /\ arg' = journal
            /\ ret' = r.out
            /\ log' = r.events
            /\ gen' = NoGen
            /\ net' = n

\* a list operation of the facade is called: g = self.get_...(return_suds_object)
CallList ==
    /\ op = "idle"
    /\ \E name \in DOMAIN ListOps : \E raw \in BOOLEAN : \E n \in ListNets :
        LET r == NewGenerator(name, raw)
        IN  /\ op' = "list"
            /\ arg' = [name |-> name, return_suds_object |-> raw]
            /\ ret' = Return([generator |-> name])
            /\ log' = r.events
            /\ gen' = r.gen
            /\ net' = n

\* the caller pulls the next item: next(g)
Pull ==
    /\ op = "list"
    /\ LET r == GenNext(gen, net)
       IN  /\ gen' = r.gen
           /\ ret' = r.out
           /\ log' = log \o r.events
    /\ UNCHANGED <<op, arg, net>>

\* the caller abandons the sequence: g.close()
Abandon ==
    /\ op = "list"
    /\ gen.pc \in {"created", "suspended"}
    /\ gen' = [gen EXCEPT !.pc = "closed"]
    /\ ret' = Return(NoneObj)
    /\ UNCHANGED <<op, arg, log, net>>

\* workday_supplier_invoice_to_pydantic(data)
CallSupplierInvoiceToPydantic ==
    /\ op = "idle"
    /\ \E data \in WireInvoices :
        /\ op' = "workday_supplier_invoice_to_pydantic"
        /\ arg' = data
        /\ ret' = workday_supplier_invoice_to_pydantic(data)
        /\ log' = <<>>
        /\ gen' = NoGen
        /\ net' = NoNet

\* pydantic_supplier_invoice_to_workday(invoice, client)
CallSupplierInvoiceToWorkday ==
    /\ op = "idle"
    /\ \E invoice \in Invoices :
       \E n \in Nets({NoneObj}, {"Tax_Rate_Options_DataType"}) :
        LET r == Built(pydantic_supplier_invoice_to_workday(invoice), n.missing_type)
        IN  /\ op' = "pydantic_supplier_invoice_to_workday"
            /\ arg' = invoice
            /\ ret' = r.out
            /\ log' = r.events
            /\ gen' = NoGen
            /\ net' = n

\* workday_conversion_rate_to_pydantic(data)
CallConversionRateToPydantic ==
    /\ op = "idle"
    /\ \E data \in WireRates :
        /\ op' = "workday_conversion_rate_to_pydantic"
        /\ arg' = data
        /\ ret' = workday_conversion_rate_to_pydantic(data)
        /\ log' = <<>>
        /\ gen' = NoGen
        /\ net' = NoNet

\* workday_company_to_pydantic(data)
CallCompanyToPydantic ==
    /\ op = "idle"
    /\ \E data \in WireCompanies :
        /\ op' = "workday_company_to_pydantic"
        /\ arg' = data
        /\ ret' = workday_company_to_pydantic(data)
        /\ log' = <<>>
        /\ gen' = NoGen
        /\ net' = NoNet

\* _get_contact_data_from_dict(data)
CallGetContactData ==
    /\ op = "idle"
    /\ \E data \in ContactData :
        /\ op' = "_get_contact_data_from_dict"
        /\ arg' = data
        /\ ret' = Return(_get_contact_data_from_dict(data))
        /\ log' = <<>>
        /\ gen' = NoGen
        /\ net' = NoNet

\* workday_supplier_to_pydantic(data)
CallSupplierToPydantic ==
    /\ op = "idle"
    /\ \E data \in WireSuppliers :
        /\ op' = "workday_supplier_to_pydantic"
        /\ arg' = data
        /\ ret' = workday_supplier_to_pydantic(data)
        /\ log' = <<>>
        /\ gen' = NoGen
        /\ net' = NoNet

\* _workday_invoice_line_to_pydantic(data, order), for lines of up to MaxTags
\* worktags (cost centers A and B, a project, a tag with no typed ID) whose
\* three tax-rate references are each right, of another ID type, or absent
CallInvoiceLineToPydantic ==
    /\ op = "idle"
    /\ \E worktags \in SeqsUpTo({IdRef("Cost_Center_Reference_ID", "A"),
                                 IdRef("Cost_Center_Reference_ID", "B"),
                                 IdRef("Project_ID", "P1"), NoIdRef}, MaxTags) :
       \E order \in 0..1 :
       \E tax \in [{"Tax_Option_1_Reference", "Tax_Rate_1_Reference",
                    "Tax_Recoverability_1_Reference"} -> {"right", "other", "absent"}] :
        LET TaxRef(key) == IF tax[key] = "other" THEN IdRef("Tax_Code_ID", "NOR_25")
                        ELSE WireLine(order, "a", LineKeys)[key]
            data == [WireLine(order, "a", LineKeys \ {k \in DOMAIN tax : tax[k] = "absent"})
                        EXCEPT !.Worktags_Reference = worktags,
                               !.Tax_Option_1_Reference = TaxRef("Tax_Option_1_Reference"),
                               !.Tax_Rate_1_Reference = TaxRef("Tax_Rate_1_Reference"),
                               !.Tax_Recoverability_1_Reference =
                                    TaxRef("Tax_Recoverability_1_Reference")]
        IN  /\ op' = "_workday_invoice_line_to_pydantic"
            /\ arg' = [data |-> data, order |-> order]
            /\ ret' = _workday_invoice_line_to_pydantic(data, order)
            /\ log' = <<>>
            /\ gen' = NoGen
            /\ net' = NoNet

\* self.get_workers(as_of_date), on a day today
CallGetWorkers ==
    /\ op = "idle"
    /\ \E today \in {[ordinal |-> n] : n \in {739000, 739001}} :
       \E as_of_date \in {NoneObj} \cup {[ordinal |-> n] : n \in {738000, 739000, 739015, 739016}} :
        /\ op' = "get_workers"
        /\ arg' = [as_of_date |-> as_of_date, today |-> today]
        /\ ret' = Return([generator |-> "get_workers"])
        /\ log' = <<[ev |-> "call", what |-> "_get_paginated",
                     data |-> get_workers(as_of_date, today)]>>
        /\ gen' = NoGen
        /\ net' = NoNet

Finish ==
    /\ op # "idle"
    /\ op' = "idle"
    /\ arg' = NoneObj
    /\ ret' = NoneObj
    /\ log' = <<>>
    /\ gen' = NoGen
    /\ net' = NoNet

Next ==
    \/ CallConstruct
    \/ CallWdObject
    \/ CallFromIdList
    \/ CallRoundTrip
    \/ CallFileWdObject
    \/ CallGetWorkerById
    \/ CallPutCurrencyRate
    \/ CallSubmitAccountingJournal
    \/ CallList
    \/ Pull
    \/ Abandon
    \/ CallSupplierInvoiceToPydantic
    \/ CallSupplierInvoiceToWorkday
    \/ CallConversionRateToPydantic
    \/ CallCompanyToPydantic
    \/ CallGetContactData
    \/ CallSupplierToPydantic
    \/ CallInvoiceLineToPydantic
    \/ CallGetWorkers
    \/ Finish

Spec == Init /\ [][Next]_vars

(***************************************************************************)
(* The reference model: C1 .. C5                                           *)
(***************************************************************************)
LacksType(id_list, id_type) ==
    \A i \in 1..Len(id_list) : id_list[i]._type # id_type

\* C1: for every reference class, every ID list with no entry of the class's
\* default workday_id_type (the empty list included) and whatever extra
\* keywords, from_id_list returns None and does not raise.
C1_AbsentIsNoneNeverRaises ==
    (op = "from_id_list" /\ LacksType(arg.id_list, ClassDef(arg.cls).id_type))
        => ret = Return(NoneObj)

\* a non-empty list without the type, with extra keywords that no constructor
\* call would accept, and the outcome None
C1_Witness ==
    /\ op = "from_id_list"
    /\ arg.cls = "Company"
    /\ Len(arg.id_list) = MaxIdList
    /\ LacksType(arg.id_list, ClassDef(arg.cls).id_type)
    /\ arg.extra.workday_id # Missing
    /\ ret = Return(NoneObj)

\* C2 (as claimed): for every concrete reference entity e with a non-empty
\* workday_id whose wire object wd_object builds, from_id_list of the same
\* class on the resulting ID list returns an entity with e's workday_id and
\* workday_id_type -- LedgerAccount and SupplierInvoice included.
C2_RoundTripAllClasses ==
    (/\ op = "round_trip"
     /\ arg.e.cls \in ConcreteClasses
     /\ Truthy(arg.e.workday_id)
     /\ wd_object(arg.e, arg.class_name).out.kind = "return")
        => /\ ret.kind = "return"
           /\ ret.value # NoneObj
           /\ ret.value.workday_id = arg.e.workday_id
           /\ ret.value.workday_id_type = arg.e.workday_id_type

\* C3: wd_object fails with an assertion error, before any wire object is made,
\* when neither the class_name argument nor the class's _class_name is set;
\* otherwise it returns a reference object with exactly one ID entry, whose
\* value is workday_id and _type is workday_id_type, and which carries the
\* entity's workday_parent_id and workday_parent_type as _parent_id and
\* _parent_type if workday_parent_id is present (non-empty), and neither
\* otherwise.
C3_WdObjectShape ==
    op = "wd_object" =>
        LET e == arg.e
            id == ret.value.ID[1]
        IN  IF ~Truthy(arg.class_name) /\ ~Truthy(ClassDef(e.cls).class_name)
            THEN ret = Raise("AssertionError") /\ log = <<>>
            ELSE /\ ret.kind = "return"
                 /\ Len(ret.value.ID) = 1
                 /\ id.value = e.workday_id
                 /\ id._type = e.workday_id_type
                 /\ IF Truthy(e.workday_parent_id)
                    THEN /\ id._parent_id = e.workday_parent_id
                         /\ id._parent_type = e.workday_parent_type
                    ELSE id._parent_id = None /\ id._parent_type = None

\* a parent-scoped entity whose wire entry carries both parent fields
C3_Witness ==
    /\ op = "wd_object"
    /\ arg.e.cls = "LedgerAccount"
    /\ arg.e.workday_id = "A"
    /\ arg.class_name = None
    /\ ret.kind = "return"
    /\ ret.value.ID[1]._parent_id = "P"
    /\ ret.value.ID[1]._parent_type = "Account_Set_ID"

\* C4 (as claimed): every reference entity that can be constructed has a
\* workday_parent_type whenever it has a workday_parent_id, and so no ID entry
\* made by wd_object has a _parent_id without a _parent_type.
C4_ParentIdImpliesParentType ==
    /\ (op = "construct" /\ ret.kind = "return")
          => (Truthy(ret.value.workday_parent_id)
                => ret.value.workday_parent_type # None)
    /\ (op = "wd_object" /\ ret.kind = "return")
          => (ret.value.ID[1]._parent_id # None => ret.value.ID[1]._parent_type # None)

\* C5 (as claimed): every concrete business reference type, SupplierInvoice
\* included, fixes a workday_id_type literal and a wire type name, so wd_object
\* without an explicit class name succeeds on any instance.
C5_EveryConcreteClassHasClassName ==
    (op = "wd_object" /\ arg.e.cls \in ConcreteClasses /\ arg.class_name = None)
        => /\ ClassDef(arg.e.cls).id_type # None
           /\ ClassDef(arg.e.cls).class_name # None
           /\ ret.kind = "return"

(***************************************************************************)
(* The File model: C6                                                      *)
(***************************************************************************)
\* C6: File.wd_object always succeeds, empty content included; it sets
\* _Filename to the filename and File_Content to the base64 text of the content
\* (four characters per started group of three bytes); _Content_Type is the
\* caller's content_type whenever one is supplied (non-empty) and the type
\* sniffed from the content only otherwise; Comment is set only when a comment
\* is present (non-empty).
C6_FileWdObject ==
    op = "file_wd_object" =>
        /\ ret.kind = "return"
        /\ ret.value._Filename = arg.filename
        /\ ret.value.File_Content # None
        /\ Len(ret.value.File_Content) = 4 * ((Len(arg.file_content) + 2) \div 3)
        /\ Truthy(arg.content_type) => ret.value._Content_Type = arg.content_type
        /\ ~Truthy(arg.content_type)
              => ret.value._Content_Type = mime_from_buffer(arg.file_content)
        /\ Truthy(arg.comment) => ret.value.Comment = arg.comment
        /\ ~Truthy(arg.comment) => ret.value.Comment = None

\* a file whose content the sniffer would call a PDF, sent under the type the
\* caller supplied
C6_Witness ==
    /\ op = "file_wd_object"
    /\ arg.file_content # <<>> /\ arg.file_content[1] = 37
    /\ arg.content_type = "text/plain"
    /\ arg.comment = None
    /\ ret.kind = "return"
    /\ ret.value._Content_Type = "text/plain"
    /\ ret.value.Comment = None

(***************************************************************************)
(* The service facades: C7 .. C9                                           *)
(***************************************************************************)
Requests == {i \in 1..Len(log) : log[i].ev = "request"}

FactoryCalls == {i \in 1..Len(log) : log[i].ev = "factory"}

\* C7: when the request of _get_worker_by_id raises a fault with the
\* validation-error code the operation raises ValueError (naming the ID type),
\* not the fault; a fault with any other code propagates unchanged; either way
\* exactly one request was made and no worker is returned.
C7_FaultClassification ==
    (op = "_get_worker_by_id" /\ Requests # {} /\ net.answer.kind = "WebFault")
        => /\ ret.kind = "raise"
           /\ Cardinality(Requests) = 1
           /\ net.answer.faultcode = "SOAP-ENV:Client.validationError"
                => /\ ret.exc = "ValueError"
                   /\ ret.msg = "Invalid ID of type \"" \o arg.id_type \o "\""
           /\ net.answer.faultcode # "SOAP-ENV:Client.validationError"
                => ret = [kind |-> "raise", exc |-> "WebFault", fault |-> net.answer]

\* a lookup answered with another client fault, which comes out as it is
C7_Witness ==
    /\ op = "_get_worker_by_id"
    /\ arg.id_type = "Employee_ID"
    /\ net.answer.kind = "WebFault"
    /\ net.answer.faultcode = "SOAP-ENV:Client"
    /\ Cardinality(Requests) = 1
    /\ ret.kind = "raise" /\ ret.exc = "WebFault" /\ ret.fault = net.answer

\* the factory calls a complete payload takes
PayloadFactoryCalls ==
    IF op = "put_currency_rate" THEN 7
    ELSE LET lines == arg.journal_entry_line_data
             LineCalls(l) == 3 + (IF l.spend_category # NoneObj THEN 2 ELSE 0)
                               + (IF l.cost_center # NoneObj THEN 2 ELSE 0)
             RECURSIVE Sum(_)
             Sum(i) == IF i = 0 THEN 0 ELSE Sum(i - 1) + LineCalls(lines[i])
         IN  7 + (IF arg.company.currency # NoneObj THEN 2 ELSE 0) + Sum(Len(lines))

\* C8: put_currency_rate and submit_accounting_journal make at most one
\* request per call; the request comes last, after every factory call of the
\* complete payload; when building the payload fails no request is made; when
\* the request fails the fault (or transport error) propagates and the request
\* is not sent again; otherwise the response is returned.
C8_SingleRequestAfterBuild ==
    op \in {"put_currency_rate", "submit_accounting_journal"} =>
        /\ Cardinality(Requests) <= 1
        /\ \A i \in Requests :
              i = Len(log) /\ Cardinality(FactoryCalls) = PayloadFactoryCalls
        /\ IF ret.kind = "raise" /\ ret.exc = "TypeNotFound"
           THEN Requests = {}
           ELSE /\ Cardinality(Requests) = 1
                /\ net.answer.kind # "response" => ret = Throw(net.answer)
                /\ net.answer.kind = "response" => ret = Return(net.answer)

\* a journal of the largest size whose submission the service rejects
C8_Witness ==
    /\ op = "submit_accounting_journal"
    /\ Len(arg.journal_entry_line_data) = MaxJournalLines
    /\ net.answer.kind = "WebFault"
    /\ Requests = {Len(log)}
    /\ Len(log) = PayloadFactoryCalls + 1
    /\ ret = Throw(net.answer)

\* the records mapped so far, in the order they were mapped
RECURSIVE MappedRecords(_)
MappedRecords(events) ==
    IF events = <<>> THEN <<>>
    ELSE IF Head(events).ev = "map"
    THEN <<Head(events).data>> \o MappedRecords(Tail(events))
    ELSE MappedRecords(Tail(events))

RECURSIVE RequestedPages(_)
RequestedPages(events) ==
    IF events = <<>> THEN <<>>
    ELSE IF Head(events).ev = "request"
    THEN <<Head(events).data>> \o RequestedPages(Tail(events))
    ELSE RequestedPages(Tail(events))

\* in every state of a list operation: nothing is requested before the first
\* pull; the k-th item yielded is the k-th record of the service, raw or
\* mapped; the records mapped are exactly those pulled (and the one whose
\* mapping failed), in order; and no page is requested beyond the one holding
\* the record the caller last asked for
C9_Lazy ==
    op = "list" =>
        LET yielded == Len(gen.out)
            maps == MappedRecords(log)
            pages == RequestedPages(log)
        IN  /\ gen.pc = "created" => log = <<>>
            /\ yielded <= Len(net.records)
            /\ \A k \in 1..yielded :
                  gen.out[k] = IF arg.return_suds_object THEN net.records[k]
                               ELSE [by |-> ListOps[arg.name].mapper, of |-> k]
            /\ arg.return_suds_object => maps = <<>>
            /\ ~arg.return_suds_object =>
                  /\ Len(maps) \in {yielded} \cup (IF gen.pc = "failed" THEN {yielded + 1}
                                                  ELSE {})
                  /\ \A k \in 1..Len(maps) : maps[k] = net.records[k]
            /\ IF arg.name = "get_currencies"
               THEN Len(pages) <= 1
               ELSE /\ Len(pages) <= (yielded \div PageSize) + 1
                    /\ \A j \in 1..Len(pages) : pages[j] = [Page |-> j]

\* in every step: only a pull makes requests or maps records, and a pull of an
\* abandoned sequence does neither
C9_Abandoned ==
    (op = "list" /\ op' = "list")
        => /\ gen'.pc = "closed" => log' = log
           /\ gen.pc = "closed" => (log' = log /\ gen' = gen)

\* C9: the list operations of the facade produce a lazy, finite sequence: no
\* request before the first pull, the k-th item is the k-th wire record in
\* transport order (mapped, or raw with return_suds_object), each record is
\* mapped only when it is pulled, and abandoning the sequence after k items
\* causes no mapping of, and no request for, later records.
C9_LazySequence == []C9_Lazy /\ [][C9_Abandoned]_vars

\* a sequence over two pages of records abandoned after its first item: one
\* request, one mapping, and a later pull changes nothing
C9_Witness ==
    /\ op = "list"
    /\ arg.name = "get_currency_rates"
    /\ ~arg.return_suds_object
    /\ Len(net.records) > PageSize
    /\ gen.pc = "closed"
    /\ Len(gen.out) = 1
    /\ Len(RequestedPages(log)) = 1
    /\ Len(MappedRecords(log)) = 1
    /\ ret = Raise("StopIteration")

(***************************************************************************)
(* Supplier invoice mapping: C10                                           *)
(***************************************************************************)
\* C10: the lines workday_supplier_invoice_to_pydantic returns are the wire
\* lines rearranged in ascending wire Line_Order, and the order of each is its
\* zero-based place in the result: 0 .. n-1 whatever the wire orders were.
C10_LinesSortedAndReindexed ==
    (op = "workday_supplier_invoice_to_pydantic" /\ ret.kind = "return") =>
        LET wire == arg.Supplier_Invoice_Data[1].Invoice_Line_Replacement_Data
            lines == ret.value.lines
            n == Len(wire)
        IN  /\ Len(lines) = n
            /\ \A i \in 1..n : lines[i].order = i - 1
            /\ \E p \in Permutations(1..n) :
                  /\ \A i \in 1..n : lines[i].description = wire[p[i]].Item_Description
                  /\ \A i, j \in 1..n :
                        i < j => wire[p[i]].Line_Order <= wire[p[j]].Line_Order

\* wire lines with Line_Order 2, 0, 1 come out in the sequence 0, 1, 2 with
\* orders 0, 1, 2
C10_Witness ==
    /\ op = "workday_supplier_invoice_to_pydantic"
    /\ ret.kind = "return"
    /\ LET wire == arg.Supplier_Invoice_Data[1].Invoice_Line_Replacement_Data
       IN  /\ Len(wire) = 3
           /\ <<wire[1].Line_Order, wire[2].Line_Order, wire[3].Line_Order>> = <<2, 0, 1>>
           /\ <<wire[1].Item_Description, wire[2].Item_Description,
                wire[3].Item_Description>> = <<"a", "b", "a">>
    /\ [i \in 1..3 |-> ret.value.lines[i].order] = <<0, 1, 2>>
    /\ [i \in 1..3 |-> ret.value.lines[i].description] = <<"b", "a", "a">>

(***************************************************************************)
(* Supplier invoice, domain to wire: C11                                   *)
(***************************************************************************)
\* C11: pydantic_supplier_invoice_to_workday emits exactly one wire line per
\* line of invoice.lines, in the same list order, and the Line_Order of each
\* wire line is the order of its domain line, unchanged: nothing is sorted,
\* dropped or numbered anew.
C11_LinesReemittedInOrder ==
    (op = "pydantic_supplier_invoice_to_workday" /\ ret.kind = "return") =>
        LET wire == ret.value.Invoice_Line_Replacement_Data
        IN  /\ Len(wire) = Len(arg.lines)
            /\ \A i \in 1..Len(wire) :
                /\ wire[i].Line_Order = arg.lines[i].order
                /\ wire[i].Item_Description = arg.lines[i].description

\* domain lines with orders 2, 0, 1 go out as wire lines 2, 0, 1
C11_Witness ==
    /\ op = "pydantic_supplier_invoice_to_workday"
    /\ ret.kind = "return"
    /\ Len(arg.lines) = 3
    /\ [i \in 1..3 |-> arg.lines[i].order] = <<2, 0, 1>>
    /\ [i \in 1..3 |-> ret.value.Invoice_Line_Replacement_Data[i].Line_Order] = <<2, 0, 1>>
    /\ [i \in 1..3 |-> ret.value.Invoice_Line_Replacement_Data[i].Item_Description]
          = <<"a", "b", "c">>

(***************************************************************************)
(* Conversion rates, wire to domain: C12, C13                              *)
(***************************************************************************)
\* the one sub-record of a rate has no rate-type reference: the field is
\* absent, or its ID list has no Currency_Rate_Type_ID entry
LacksRateType(data) ==
    /\ Len(data.Currency_Conversion_Rate_Data) = 1
    /\ LET sub_data == data.Currency_Conversion_Rate_Data[1]
       IN  \/ "Currency_Rate_Type_Reference" \notin sub_data.keys
           \/ LacksType(sub_data.Currency_Rate_Type_Reference.ID, "Currency_Rate_Type_ID")

\* the record is complete but for its rate type
OtherwiseComplete(data) ==
    /\ get_id_from_list(data.Currency_Conversion_Rate_Reference.ID, "WID") # None
    /\ LET sub_data == data.Currency_Conversion_Rate_Data[1]
       IN  /\ ~LacksType(sub_data.From_Currency_Reference.ID, "Currency_ID")
           /\ ~LacksType(sub_data.Target_Currency_Reference.ID, "Currency_ID")

\* C12 (as claimed): for every wire record missing its
\* Currency_Rate_Type_Reference -- the field absent altogether, or its ID list
\* without a Currency_Rate_Type_ID entry -- workday_conversion_rate_to_pydantic
\* raises the assertion that all conversion rates need a rate-type reference,
\* and returns no ConversionRate.
C12_MissingRateTypeAsserts ==
    (op = "workday_conversion_rate_to_pydantic" /\ LacksRateType(arg)
        /\ OtherwiseComplete(arg)) =>
        ret = RaiseMsg("AssertionError",
                       "All currency conversion rates need a 'rate type'-reference")

CardinalityError ==
    RaiseMsg("AssertionError",
             "Code is written expecting that we only have one currency rate data per object, but that is not the case here")

\* the one sub-record carries all four references, with values the
\* ConversionRate model accepts
CompleteRate(data) ==
    /\ Len(data.Currency_Conversion_Rate_Data) = 1
    /\ Truthy(get_id_from_list(data.Currency_Conversion_Rate_Reference.ID, "WID"))
    /\ LET sub_data == data.Currency_Conversion_Rate_Data[1]
       IN  /\ sub_data.keys = RateSubKeys
           /\ \E from \in {"NOK"}, target \in {"EUR"} :
                /\ sub_data.From_Currency_Reference = IdRef("Currency_ID", from)
                /\ sub_data.Target_Currency_Reference = IdRef("Currency_ID", target)
           /\ \E type \in RateTypeIDs :
                sub_data.Currency_Rate_Type_Reference = IdRef("Currency_Rate_Type_ID", type)

\* C13: workday_conversion_rate_to_pydantic raises the cardinality error
\* whenever the record has zero, two or more Currency_Conversion_Rate_Data
\* entries, whatever the entries hold (a sub-record with fields missing is not
\* read before the check); a record with exactly one entry that carries all
\* four references, with values the ConversionRate model accepts, maps to a
\* ConversionRate with the IDs of those references.
C13_ExactlyOneRateData ==
    op = "workday_conversion_rate_to_pydantic" =>
        /\ Len(arg.Currency_Conversion_Rate_Data) # 1 => ret = CardinalityError
        /\ ret = CardinalityError => Len(arg.Currency_Conversion_Rate_Data) # 1
        /\ CompleteRate(arg) =>
              /\ ret.kind = "return"
              /\ ret.value.workday_id = "wid"
              /\ ret.value.from_currency_iso = "NOK"
              /\ ret.value.to_currency_iso = "EUR"
              /\ ret.value.rate_type_id =
                    get_id_from_list(
                        arg.Currency_Conversion_Rate_Data[1].Currency_Rate_Type_Reference.ID,
                        "Currency_Rate_Type_ID")
              /\ ret.value.rate_type_id \in RateTypeIDs
              /\ ret.value.rate = "10.5"

\* two entries, the first without its rate-type field: the cardinality error,
\* not a key error
C13_Witness ==
    /\ op = "workday_conversion_rate_to_pydantic"
    /\ Len(arg.Currency_Conversion_Rate_Data) = 2
    /\ "Currency_Rate_Type_Reference" \notin arg.Currency_Conversion_Rate_Data[1].keys
    /\ ret = CardinalityError

(***************************************************************************)
(* Companies, wire to domain: C14                                          *)
(***************************************************************************)
\* C14: workday_company_to_pydantic, for a company whose Tax_Status_Data has
\* entries, sets country_code to the ISO 3166-1 alpha-2 code of the first
\* entry's country reference whatever the later entries hold (a first entry
\* with a valid code maps whether or not a later one is valid); with
\* Tax_Status_Data absent country_code is unset.
C14_FirstTaxStatusEntry ==
    (op = "workday_company_to_pydantic" /\ Len(arg.Company_Data) = 1) =>
        LET cdata == arg.Company_Data[1]
            first == get_id_from_list(cdata.Tax_Status_Data[1].Country_Reference.ID,
                                      "ISO_3166-1_Alpha-2_Code")
        IN  /\ ("Tax_Status_Data" \in cdata.keys /\ cdata.Tax_Status_Data # <<>>) =>
                /\ ret.kind = "return" => ret.value.country_code = first
                /\ first \in {None, "NO", "SE"} => ret.kind = "return"
            /\ "Tax_Status_Data" \notin cdata.keys =>
                ret.kind = "return" /\ ret.value.country_code = None

\* two entries with different countries: the first one's code is taken
C14_Witness ==
    /\ op = "workday_company_to_pydantic"
    /\ Len(arg.Company_Data) = 1
    /\ "Tax_Status_Data" \in arg.Company_Data[1].keys
    /\ arg.Company_Data[1].Tax_Status_Data =
          <<[Country_Reference |-> IdRef("ISO_3166-1_Alpha-2_Code", "SE")],
            [Country_Reference |-> IdRef("ISO_3166-1_Alpha-2_Code", "NO")]>>
    /\ ret.kind = "return"
    /\ ret.value.country_code = "SE"

(***************************************************************************)
(* Supplier contact data: C15, C16                                         *)
(***************************************************************************)
\* the text with every newline written as the escape sequence again
RECURSIVE Escaped(_)
Escaped(text) ==
    IF text = <<>> THEN <<>>
    ELSE (IF Head(text) = Newline THEN NewlineEscape ELSE <<Head(text)>>)
            \o Escaped(Tail(text))

HasEscape(text) ==
    \E i \in 1..(Len(text) - Len(NewlineEscape) + 1) :
        SubSeq(text, i, i + Len(NewlineEscape) - 1) = NewlineEscape

\* entry i has the latest effective date of the list, and is the first that has
Latest(entries, i) ==
    /\ \A j \in 1..Len(entries) : entries[j]._Effective_Date <= entries[i]._Effective_Date
    /\ \A j \in 1..(i - 1) : entries[j]._Effective_Date < entries[i]._Effective_Date

\* C15: given Address_Data entries, the mapped address is the formatted
\* address of the entry with the latest effective date, wherever it sits in the
\* list, with every newline escape sequence in it replaced by a real newline
\* (no escape sequence is left, and writing the newlines back as escape
\* sequences gives the wire text).
C15_LatestAddressUnescaped ==
    (op = "_get_contact_data_from_dict" /\ "Address_Data" \in arg.keys
        /\ arg.Address_Data # <<>>) =>
        \E i \in 1..Len(arg.Address_Data) :
            /\ Latest(arg.Address_Data, i)
            /\ ~HasEscape(ret.value.address)
            /\ Escaped(ret.value.address) = arg.Address_Data[i]._Formatted_Address

\* the latest address is the last of the list, and holds two escape sequences
C15_Witness ==
    /\ op = "_get_contact_data_from_dict"
    /\ "Address_Data" \in arg.keys
    /\ Len(arg.Address_Data) = 2
    /\ arg.Address_Data[1]._Effective_Date < arg.Address_Data[2]._Effective_Date
    /\ arg.Address_Data[1]._Formatted_Address # arg.Address_Data[2]._Formatted_Address
    /\ ret.value.address = <<Newline, Newline, "C">>

\* C16 (as claimed): for each of phone, email and url, when several wire
\* entries are present the mapped value is that of the most recently effective
\* entry, not merely of the first entry of the list.
C16_LatestPhoneEmailUrl ==
    op = "_get_contact_data_from_dict" =>
        /\ Len(arg.Phone_Data) > 1 =>
              \E i \in 1..Len(arg.Phone_Data) :
                  /\ Latest(arg.Phone_Data, i)
                  /\ ret.value.phone = arg.Phone_Data[i]._E164_Formatted_Phone
        /\ Len(arg.Email_Address_Data) > 1 =>
              \E i \in 1..Len(arg.Email_Address_Data) :
                  /\ Latest(arg.Email_Address_Data, i)
                  /\ ret.value.email = arg.Email_Address_Data[i].Email_Address
        /\ Len(arg.Web_Address_Data) > 1 =>
              \E i \in 1..Len(arg.Web_Address_Data) :
                  /\ Latest(arg.Web_Address_Data, i)
                  /\ ret.value.url = arg.Web_Address_Data[i].Web_Address

(***************************************************************************)
(* Natural keys of the composite documents: C17                            *)
(***************************************************************************)
\* C17 (as claimed): both composite documents derive a deterministic natural
\* key that is sent with the submission.  The journal's key is sent as
\* Accounting_Journal_ID and depends on accounting date and company ID only:
\* any journal with the same date and company has the same key, whatever its
\* lines, and any with another date or company has another key.  The supplier
\* invoice likewise derives a key, sent as the invoice's ID on the wire.
C17_NaturalKeys ==
    /\ (op = "submit_accounting_journal" /\ Requests # {}) =>
          \A i \in Requests : \A other \in Journals :
              (log[i].data.Accounting_Journal_ID = accounting_journal_id(other))
                  <=> (/\ other.accounting_date = arg.accounting_date
                       /\ other.company.workday_id = arg.company.workday_id)
    /\ (op = "pydantic_supplier_invoice_to_workday" /\ ret.kind = "return") =>
          ret.value.Supplier_Invoice_ID # None

(***************************************************************************)
(* Suppliers, wire to domain: C18                                          *)
(***************************************************************************)
\* C18: workday_supplier_to_pydantic raises NoSupplierID -- not an assertion
\* error, key error or validation error -- whenever the record's Supplier_ID is
\* absent or empty, whatever else the record holds or lacks (its name, its
\* business entity data, a tax ID of an unknown type), and only then.
C18_NoSupplierIdFirst ==
    op = "workday_supplier_to_pydantic" =>
        LET sup_data == arg.Supplier_Data
        IN  ("Supplier_ID" \notin sup_data.keys \/ sup_data.Supplier_ID = "")
                <=> ret = Raise("NoSupplierID")

\* an empty Supplier_ID in a record that also lacks its name and its business
\* entity data and carries a tax ID of an unknown type
C18_Witness ==
    /\ op = "workday_supplier_to_pydantic"
    /\ "Supplier_ID" \in arg.Supplier_Data.keys
    /\ arg.Supplier_Data.Supplier_ID = ""
    /\ {"Supplier_Name", "Business_Entity_Data"} \cap arg.Supplier_Data.keys = {}
    /\ "Tax_ID_Data" \in arg.Supplier_Data.keys
    /\ get_id_from_list(arg.Supplier_Data.Tax_ID_Data[1].Tax_ID_Type_Reference.ID,
                        "Tax_ID_Type") = "XXX-VAT"
    /\ ret = Raise("NoSupplierID")

(***************************************************************************)
(* Journals, domain to wire: C19                                           *)
(***************************************************************************)
\* the ID type and value of each tag of a wire line, in list order
TagIds(wire_line) ==
    [k \in 1..Len(wire_line.Worktags_Reference) |->
        <<wire_line.Worktags_Reference[k].ID[1]._type,
          wire_line.Worktags_Reference[k].ID[1].value>>]

\* the tags a domain line calls for
ExpectedTagIds(journal_line) ==
    (IF journal_line.spend_category # NoneObj
     THEN << <<"Spend_Category_ID", journal_line.spend_category.workday_id>> >> ELSE <<>>)
    \o (IF journal_line.cost_center # NoneObj
        THEN << <<"Cost_Center_Reference_ID", journal_line.cost_center.workday_id>> >>
        ELSE <<>>)

\* C19: the journal sent by submit_accounting_journal has exactly one entry
\* line per domain line, in the caller's order (same account and amounts at
\* the same place); each line's Worktags_Reference holds a spend-category tag
\* iff spend_category is set and a cost-center tag iff cost_center is set,
\* spend category first, and nothing else; Currency_Reference is set iff the
\* company has a currency.
C19_JournalLinesAndOptionalFields ==
    (op = "submit_accounting_journal" /\ Requests # {}) =>
        \A r \in Requests :
            LET wire == log[r].data
                wire_lines == wire.Journal_Entry_Line_Replacement_Data
                lines == arg.journal_entry_line_data
            IN  /\ Len(wire_lines) = Len(lines)
                /\ \A i \in 1..Len(lines) :
                    /\ wire_lines[i].Ledger_Account_Reference.ID[1].value
                            = lines[i].ledger_account.workday_id
                    /\ wire_lines[i].Debit_Amount = lines[i].debit
                    /\ wire_lines[i].Credit_Amount = lines[i].credit
                    /\ TagIds(wire_lines[i]) = ExpectedTagIds(lines[i])
                /\ (wire.Currency_Reference # NoneObj) <=> (arg.company.currency # NoneObj)
                /\ arg.company.currency # NoneObj =>
                    wire.Currency_Reference.ID[1].value = arg.company.currency.workday_id

\* a journal of a company without a currency whose first line carries both
\* tags and whose second, on another account, carries none
C19_Witness ==
    /\ op = "submit_accounting_journal"
    /\ Requests # {}
    /\ arg.company.currency = NoneObj
    /\ Len(arg.journal_entry_line_data) = 2
    /\ arg.journal_entry_line_data[1].spend_category # NoneObj
    /\ arg.journal_entry_line_data[1].cost_center # NoneObj
    /\ arg.journal_entry_line_data[2].ledger_account.workday_id = "2400"
    /\ \E r \in Requests :
        /\ Len(log[r].data.Journal_Entry_Line_Replacement_Data[1].Worktags_Reference) = 2
        /\ log[r].data.Journal_Entry_Line_Replacement_Data[2].Worktags_Reference = <<>>
        /\ log[r].data.Currency_Reference = NoneObj

(***************************************************************************)
(* Invoice lines, the cost center among the worktags: C20                  *)
(***************************************************************************)
\* the places of the IDs of a tag that are cost-center IDs
CostCenterIds(tag) ==
    {k \in 1..Len(tag.ID) : tag.ID[k]._type = "Cost_Center_Reference_ID"}

\* the places of the tags that carry a cost-center ID
CostCenterTags(worktags) ==
    {i \in 1..Len(worktags) : CostCenterIds(worktags[i]) # {}}

\* C20: the cost_center of a mapped invoice line is the one of the last tag of
\* Worktags_Reference, in list order, that carries a Cost_Center_Reference_ID;
\* tags without one change nothing, and with no such tag cost_center is absent.
C20_LastCostCenterWins ==
    (op = "_workday_invoice_line_to_pydantic" /\ ret.kind = "return") =>
        LET worktags == arg.data.Worktags_Reference
            tagged == CostCenterTags(worktags)
        IN  IF tagged = {} THEN ret.value.cost_center = NoneObj
            ELSE LET last == CHOOSE i \in tagged : \A j \in tagged : j <= i
                     tag == worktags[last]
                 IN  /\ ret.value.cost_center # NoneObj
                     /\ ret.value.cost_center.workday_id
                            = tag.ID[CHOOSE k \in CostCenterIds(tag) : TRUE].value

\* cost center A, then cost center B, then a project tag: B is kept
C20_Witness ==
    /\ op = "_workday_invoice_line_to_pydantic"
    /\ arg.data.Worktags_Reference
            = <<IdRef("Cost_Center_Reference_ID", "A"),
                IdRef("Cost_Center_Reference_ID", "B"), IdRef("Project_ID", "P1")>>
    /\ ret.kind = "return"
    /\ ret.value.cost_center # NoneObj
    /\ ret.value.cost_center.workday_id = "B"

(***************************************************************************)
(* Workers as of a date: C21                                               *)
(***************************************************************************)
\* C21: get_workers hands _get_paginated an As_Of_Effective_Date filter iff
\* the caller gave as_of_date, the filter's value is the date the caller
\* gave, and without as_of_date the filters are empty.
C21_AsOfDateFilter ==
    op = "get_workers" =>
        LET filters == log[1].data.filters
        IN  /\ ("As_Of_Effective_Date" \in filters.keys) <=> (arg.as_of_date # NoneObj)
            /\ arg.as_of_date # NoneObj => filters.As_Of_Effective_Date = arg.as_of_date
            /\ arg.as_of_date = NoneObj => filters.keys = {}

(***************************************************************************)
(* Invoice lines, the tax-rate options: C22                                *)
(***************************************************************************)
\* the reference under key exists and carries an ID of the given type
HasIdOfType(data, key, type) ==
    /\ key \in data.keys
    /\ \E k \in 1..Len(data[key].ID) : data[key].ID[k]._type = type

AllTaxRateReferences(data) ==
    /\ HasIdOfType(data, "Tax_Option_1_Reference", "Tax_Option_ID")
    /\ HasIdOfType(data, "Tax_Rate_1_Reference", "Tax_Rate_ID")
    /\ HasIdOfType(data, "Tax_Recoverability_1_Reference", "Tax_Recoverability_Object_ID")

\* C22: in the mapping of an invoice line the tax-rate options are all or
\* nothing and never an error: tax_rate_options_data is present iff all three
\* of Tax_Option_1_Reference, Tax_Rate_1_Reference and
\* Tax_Recoverability_1_Reference exist and each carries an ID of its type;
\* when one is missing or carries no such ID the line is mapped all the same,
\* without tax_rate_options_data.
C22_TaxRateOptionsAllOrNothing ==
    op = "_workday_invoice_line_to_pydantic" =>
        /\ ret.kind = "return"
        /\ (ret.value.tax_rate_options_data # NoneObj) <=> AllTaxRateReferences(arg.data)
        /\ AllTaxRateReferences(arg.data) =>
            /\ ret.value.tax_rate_options_data.tax_option.workday_id = "CALC_TAX_DUE"
            /\ ret.value.tax_rate_options_data.tax_rate.workday_id = "NOR_25"
            /\ ret.value.tax_rate_options_data.tax_recoverability.workday_id
                    = "Fully_Recoverable"

\* a line with its tax rate and tax option but no recoverability reference,
\* mapped without tax-rate options
C22_Witness ==
    /\ op = "_workday_invoice_line_to_pydantic"
    /\ HasIdOfType(arg.data, "Tax_Option_1_Reference", "Tax_Option_ID")
    /\ HasIdOfType(arg.data, "Tax_Rate_1_Reference", "Tax_Rate_ID")
    /\ "Tax_Recoverability_1_Reference" \notin arg.data.keys
    /\ ret.kind = "return"
    /\ ret.value.tax_rate_options_data = NoneObj
    /\ ret.value.tax_code # NoneObj

(***************************************************************************)
(* Ties in the two sorts: C23                                              *)
(***************************************************************************)
\* p lists the places of the wire lines by Line_Order, lines of equal
\* Line_Order by their place in the input
StableOrder(wire, p) ==
    \A i, j \in 1..Len(wire) :
        i < j => \/ wire[p[i]].Line_Order < wire[p[j]].Line_Order
                 \/ /\ wire[p[i]].Line_Order = wire[p[j]].Line_Order
                    /\ p[i] < p[j]

\* C23: ties are broken by input order.  Wire lines of equal Line_Order keep
\* their relative input order in the mapped invoice and get consecutive
\* orders; of several Address_Data entries that share the latest effective
\* date the one that comes first in the input list gives the address.
C23_TiesKeepInputOrder ==
    /\ (op = "workday_supplier_invoice_to_pydantic" /\ ret.kind = "return") =>
        LET wire == arg.Supplier_Invoice_Data[1].Invoice_Line_Replacement_Data
            lines == ret.value.lines
        IN  \A p \in Permutations(1..Len(wire)) :
                StableOrder(wire, p) =>
                    /\ Len(lines) = Len(wire)
                    /\ \A i \in 1..Len(wire) :
                        /\ lines[i].description = wire[p[i]].Item_Description
                        /\ lines[i].order = i - 1
    /\ (op = "_get_contact_data_from_dict" /\ "Address_Data" \in arg.keys) =>
        \A i, j \in 1..Len(arg.Address_Data) :
            (/\ i < j
             /\ Latest(arg.Address_Data, i)
             /\ arg.Address_Data[j]._Effective_Date = arg.Address_Data[i]._Effective_Date)
                => Escaped(ret.value.address) = arg.Address_Data[i]._Formatted_Address

\* two wire lines of Line_Order 1, "b" before "a", after a line of Line_Order
\* 2: mapped as "b", "a" with orders 0 and 1, then the line of Line_Order 2
C23_Witness ==
    /\ op = "workday_supplier_invoice_to_pydantic"
    /\ ret.kind = "return"
    /\ LET wire == arg.Supplier_Invoice_Data[1].Invoice_Line_Replacement_Data
       IN  /\ Len(wire) = 3
           /\ <<wire[1].Line_Order, wire[2].Line_Order, wire[3].Line_Order>> = <<2, 1, 1>>
           /\ <<wire[1].Item_Description, wire[2].Item_Description,
                wire[3].Item_Description>> = <<"a", "b", "a">>
    /\ [i \in 1..3 |-> ret.value.lines[i].order] = <<0, 1, 2>>
    /\ [i \in 1..3 |-> ret.value.lines[i].description] = <<"b", "a", "a">>

\* two addresses of the same effective date: the first of the list is taken
C23_AddressTie ==
    /\ op = "_get_contact_data_from_dict"
    /\ "Address_Data" \in arg.keys
    /\ Len(arg.Address_Data) = 2
    /\ arg.Address_Data[1]._Effective_Date = arg.Address_Data[2]._Effective_Date
    /\ arg.Address_Data[1]._Formatted_Address = <<"A", "&", "#", "x", "a", ";", "B">>
    /\ arg.Address_Data[2]._Formatted_Address = <<"D", "&", "#", "x", "a", "E">>
    /\ ret.value.address = <<"A", Newline, "B">>

====
